---------------------------- MODULE Spec2Model ----------------------------
(***************************************************************************)
(* Verification model of SuperSrg (native/src).                            *)
(*                                                                         *)
(*   Part I    the dependency-driven target scheduler                      *)
(*             (minecraft/targets.rs, MappingsTargetComputer)              *)
(*   Part II   the range applier                                           *)
(*             (ranges/applier.rs, ranges/rangemap.rs)                     *)
(*   Part III  the mapping store and the binary codec                      *)
(*             (types.rs, mappings/mod.rs, mappings/binary.rs)             *)
(*   Part IV   chain and the lookups of a snapshot (mappings/mod.rs)       *)
(*   Part V    the target names of the command line                        *)
(*             (minecraft/targets.rs, MappingsTarget::from_str)            *)
(*   Part VI   the SRG text format                                         *)
(*             (mappings/parser/srg.rs, mappings/encoder/srg.rs)           *)
(*   Part VII  MappingsBuilder::transform (mappings/mod.rs)                *)
(*   Part VIII the descriptor cache of a snapshot under concurrent callers *)
(*             (mappings/mod.rs, MappingsSnapshot::remap_signature)        *)
(*                                                                         *)
(* Each part has its own specification; the variables of the other parts   *)
(* stay at their initial value.                                            *)
(***************************************************************************)
EXTENDS Integers, Sequences, FiniteSets, TLC

VARIABLES
    \* ---- Part I: MappingsTargetComputer ----
    debug_build,        \* cfg(debug_assertions) of the build
    initial_targets,    \* MappingsTargetComputerBuilder.initial_targets
    remaining_targets,  \* MsQueue<MappingsTarget>
    results,            \* keys of results (RwLock<OrderMap<Target, Snapshot>>)
    waiters,            \* OrderMap<Target, Vec<Target>>
    waiting_targets,    \* CHashMap<Target, WaitingTarget.dependencies>
    done,               \* AtomicBool
    failed,             \* AtomicBool
    running_workers,    \* the usize inside Mutex<usize>
    workers_mutex,      \* holder of the running_workers mutex
    waiters_lock,       \* holder of waiters.write()
    results_lock,       \* holders of the results lock, in acquisition order
    pc,                 \* per worker: position in compute_target_work
    target,             \* per worker: the local `target`
    pending,            \* per worker: rest of the list being iterated
    outcome,            \* per worker: what try_compute_target returned
    produced,           \* history: how often each target was installed
    ever_queued,        \* history: every target ever pushed on the queue
    \* ---- Part II: RangeMapApplier::apply ----
    ap_input,             \* the bytes of the source file
    ap_field_references,  \* FileRanges.field_references
    ap_method_references, \* FileRanges.method_references
    ap_mappings,          \* the MappingsSnapshot: member name tables
    ap_references,        \* the rest of the iterator `references`
    ap_index,             \* `index`: bytes of the input consumed
    ap_output,            \* the bytes written to `output`
    ap_num_changes,       \* `num_changes`
    ap_status,            \* ready, running, ok, eof or panic
    \* ---- Part III: MappingsBuilder and the binary codec ----
    st_original,        \* the store the run started from
    st_builder,         \* the MappingsBuilder operated on
    st_reversed,        \* how many times reverse() was applied
    st_stream,          \* the values written by the encoder
    st_position,        \* how many values the decoder has read
    st_left,            \* classes the decoder has still to read
    st_status,          \* ready, encoded, decoding, ok or an error
    \* ---- Part IV: chain and the lookups of a snapshot ----
    ch_self,            \* the builder chain() is called on, as it was
    ch_other,           \* the mappings chained to it
    ch_builder,         \* the builder operated on
    ch_status,          \* ready or chained
    ch_query,           \* the lookup made on ch_builder.snapshot()
    ch_answer,          \* what the lookup returned
    \* ---- Part V: MappingsTarget::from_str ----
    ts_value,           \* the string given to from_str
    ts_result,          \* what from_str returned
    \* ---- Part VI: the SRG parser and encoder ----
    sg_lines,           \* the lines of the text given to the parser
    sg_rest,            \* the lines parse_text has still to read
    sg_before,          \* the parser's builder before the last parse_line
    sg_builder,         \* SrgMappingsParser.builder
    sg_status,          \* parsing, ok, written or an error
    sg_output,          \* the lines written by SrgEncoder::write
    \* ---- Part VII: MappingsBuilder::transform ----
    tf_original,        \* the builder transform() is called on, as it was
    tf_builder,         \* the builder operated on
    tf_signatures,      \* the local `signatures`
    tf_stage,           \* the loop transform() is in, done or a panic
    tf_index,           \* entries of that loop already visited
    tf_calls,           \* history: the hook calls made, in order
    \* ---- Part VIII: the descriptor cache of a shared snapshot ----
    sc_mappings,        \* the MappingsSnapshot, signature_cache included
    sc_writer,          \* the thread holding signature_cache.write()
    sc_pc,              \* per thread: position in the call
    sc_call,            \* per thread: the call being made
    sc_result,          \* per thread: what its last call returned
    sc_returned,        \* history: (descriptor asked, descriptor returned)
    sc_count            \* per thread: calls made

schedVars == <<debug_build, initial_targets, remaining_targets, results,
               waiters, waiting_targets, done, failed, running_workers,
               workers_mutex, waiters_lock, results_lock, pc, target,
               pending, outcome, produced, ever_queued>>

applierVars == <<ap_input, ap_field_references, ap_method_references,
                 ap_mappings, ap_references, ap_index, ap_output,
                 ap_num_changes, ap_status>>

storeVars == <<st_original, st_builder, st_reversed, st_stream, st_position,
               st_left, st_status>>

chainVars == <<ch_self, ch_other, ch_builder, ch_status, ch_query,
               ch_answer>>

targetVars == <<ts_value, ts_result>>

srgVars == <<sg_lines, sg_rest, sg_before, sg_builder, sg_status, sg_output>>

transformVars == <<tf_original, tf_builder, tf_signatures, tf_stage,
                   tf_index, tf_calls>>

cacheVars == <<sc_mappings, sc_writer, sc_pc, sc_call, sc_result,
               sc_returned, sc_count>>

lateVars == <<transformVars, cacheVars>>

moreVars == <<chainVars, targetVars, srgVars, lateVars>>

vars == <<schedVars, applierVars, storeVars, moreVars>>

\* what compute_target_work never writes
fixedVars ==
    <<debug_build, initial_targets, applierVars, storeVars, moreVars>>

(***************************************************************************)
(* Targets                                                                 *)
(***************************************************************************)
MappingsFormat == {"srg", "mcp", "spigot", "obf"}

TargetModifier == {"classes", "members", "onlyobf"}

NoModifier == "none"

MappingsTarget(original, renamed) ==
    [original |-> original, renamed |-> renamed, modifier |-> NoModifier]

WithModifier(t, m) == [t EXCEPT !.modifier = m]

OBF2SRG == MappingsTarget("obf", "srg")
SRG2MCP == MappingsTarget("srg", "mcp")
OBF2SPIGOT == MappingsTarget("obf", "spigot")

\* every value the MappingsTarget struct can take
AllTargets ==
    [original : MappingsFormat, renamed : MappingsFormat,
     modifier : TargetModifier \cup {NoModifier}]

\* The targets try_compute_target hands to try_take, in the order given.
Requires(t) ==
    IF t.modifier # NoModifier
    THEN (IF t.modifier = "onlyobf"
          THEN <<MappingsTarget(t.original, "obf")>> ELSE <<>>)
         \o <<MappingsTarget(t.original, t.renamed)>>
    ELSE CASE t.original = "srg" /\ t.renamed = "mcp" -> <<OBF2SRG>>
           [] t.original = "srg" /\ t.renamed = "spigot" ->
                <<MappingsTarget("srg", "obf"), OBF2SPIGOT>>
           [] t.original = "srg" /\ t.renamed = "obf" -> <<OBF2SRG>>
           [] t.original = "mcp" /\ t.renamed = "srg" -> <<SRG2MCP>>
           [] t.original = "mcp" /\ t.renamed = "spigot" ->
                <<MappingsTarget("mcp", "obf"), OBF2SPIGOT>>
           [] t.original = "mcp" /\ t.renamed = "obf" ->
                <<MappingsTarget("obf", "mcp")>>
           [] t.original = "spigot" /\ t.renamed = "srg" ->
                <<MappingsTarget("spigot", "obf"), OBF2SRG>>
           [] t.original = "spigot" /\ t.renamed = "mcp" ->
                <<MappingsTarget("spigot", "obf"), MappingsTarget("obf", "mcp")>>
           [] t.original = "spigot" /\ t.renamed = "obf" -> <<OBF2SPIGOT>>
           [] t.original = "obf" /\ t.renamed = "mcp" -> <<OBF2SRG, SRG2MCP>>
           [] OTHER -> <<>>

\* The unmodified targets whose arm panics ("Redundant", unimplemented!).
Redundant(t) == t.modifier = NoModifier /\ t.original = t.renamed

\* The arms that call an external loader, which alone can return Err(cause).
CallsFetcher(t) ==
    /\ t.modifier = NoModifier
    /\ \/ t = OBF2SRG
       \/ t = OBF2SPIGOT
       \/ t = SRG2MCP

Range(s) == {s[i] : i \in DOMAIN s}

\* try_take reporting every target asked for when one of them is missing
try_take_All(targets, res) ==
    IF \A i \in DOMAIN targets : targets[i] \in res THEN <<>> ELSE targets

\* try_take: the targets absent from results, in the order asked (Err), <<>>
\* when all are there (Ok).
try_take(targets, res) ==
    LET Missing(x) == x \notin res IN SelectSeq(targets, Missing)

\* The outcomes try_compute_target can have for t against results = res.
try_compute_target(t, res) ==
    LET missing == try_take(Requires(t), res) IN
    IF missing # <<>> THEN {[kind |-> "WaitingFor", deps |-> missing]}
    ELSE IF Redundant(t) THEN {[kind |-> "Panic", deps |-> <<>>]}
    ELSE IF CallsFetcher(t)
         THEN {[kind |-> "Ok", deps |-> <<>>],
               [kind |-> "MappingError", deps |-> <<>>]}
    ELSE {[kind |-> "Ok", deps |-> <<>>]}

(***************************************************************************)
(* Bounds of the scheduler model                                           *)
(***************************************************************************)
\* main.rs: target_threads = min(num_cpus::get(), 2)
NumWorkers == 2

Workers == 1..NumWorkers

NoWorker == NumWorkers + 1

\* longest list of targets requested on the command line
MaxRequested == 2

\* targets the requests are drawn from
RequestPool ==
    {OBF2SRG, OBF2SPIGOT, MappingsTarget("srg", "obf"),
     MappingsTarget("srg", "spigot"),
     WithModifier(MappingsTarget("srg", "obf"), "onlyobf"),
     WithModifier(OBF2SRG, "onlyobf")}

RECURSIVE DistinctSeqs(_, _)
DistinctSeqs(S, n) ==
    IF n = 0 THEN {<<>>}
    ELSE {<<>>} \cup
         UNION {{<<x>> \o r : r \in DistinctSeqs(S \ {x}, n - 1)} : x \in S}

Requests == DistinctSeqs(RequestPool, MaxRequested) \ {<<>>}

NoTarget == [original |-> "none", renamed |-> "none", modifier |-> NoModifier]

NoOutcome == [kind |-> "None", deps |-> <<>>]

EmptyMap == [x \in {} |-> <<>>]

\* OrderMap::insert / remove on the key set
MapPut(m, k, v) == [x \in DOMAIN m \cup {k} |-> IF x = k THEN v ELSE m[x]]

MapRemove(m, k) == [x \in DOMAIN m \ {k} |-> m[x]]

(***************************************************************************)
(* MappingsTargetComputerBuilder::build                                    *)
(***************************************************************************)
build(req) ==
    /\ initial_targets = req
    /\ remaining_targets = req
    /\ waiters = [t \in Range(req) |-> <<>>]
    /\ results = {}
    /\ waiting_targets = EmptyMap
    /\ done = FALSE
    /\ failed = FALSE
    /\ running_workers = 0

SchedInit ==
    /\ debug_build \in BOOLEAN
    /\ \E req \in Requests : build(req)
    /\ workers_mutex = NoWorker
    /\ waiters_lock = NoWorker
    /\ results_lock = <<>>
    /\ pc = [w \in Workers |-> "start"]
    /\ target = [w \in Workers |-> NoTarget]
    /\ pending = [w \in Workers |-> <<>>]
    /\ outcome = [w \in Workers |-> NoOutcome]
    /\ produced = [t \in AllTargets |-> 0]
    /\ ever_queued = Range(initial_targets)

(***************************************************************************)
(* compute_target_work, one action per shared-memory step                  *)
(***************************************************************************)
Goto(w, label) == pc' = [pc EXCEPT ![w] = label]

\* Condvar::notify_all: every parked worker is woken (and must re-lock)
notify_all(p) == [w \in Workers |-> IF p[w] = "parked" THEN "woken" ELSE p[w]]

push(t) ==
    /\ remaining_targets' = Append(remaining_targets, t)
    /\ ever_queued' = ever_queued \cup {t}

UnchangedShared ==
    UNCHANGED <<fixedVars, results, waiters,
                waiting_targets, done, failed, running_workers,
                waiters_lock, results_lock, produced>>

\* lines 123-127: lock, assert!(!done, "Already done!"), *lock += 1
Start(w) ==
    /\ pc[w] = "start"
    /\ workers_mutex = NoWorker
    /\ IF done
       THEN /\ Goto(w, "panic_already_done")
            /\ UNCHANGED running_workers
       ELSE /\ Goto(w, "pop")
            /\ running_workers' = running_workers + 1
    /\ UNCHANGED <<fixedVars, remaining_targets, results,
                   waiters, waiting_targets, done, failed, workers_mutex,
                   waiters_lock, results_lock, target, pending, outcome,
                   produced, ever_queued>>

\* line 130: remaining_targets.try_pop()
Pop(w) ==
    /\ pc[w] = "pop"
    /\ IF remaining_targets # <<>>
       THEN /\ target' = [target EXCEPT ![w] = Head(remaining_targets)]
            /\ remaining_targets' = Tail(remaining_targets)
            /\ Goto(w, "compute")
       ELSE /\ Goto(w, "idle_lock")
            /\ UNCHANGED <<target, remaining_targets>>
    /\ UnchangedShared
    /\ UNCHANGED <<workers_mutex, pending, outcome, ever_queued>>

\* lines 135-136: running_workers.lock(), done.load()
IdleLock(w) ==
    /\ pc[w] = "idle_lock"
    /\ workers_mutex = NoWorker
    /\ workers_mutex' = w
    /\ Goto(w, IF done THEN "idle_assert" ELSE "idle_pop")
    /\ UnchangedShared
    /\ UNCHANGED <<remaining_targets, target, pending, outcome, ever_queued>>

\* lines 137-141: assert!(try_pop().is_none(), "Marked as done ..."), Ok(())
IdleAssert(w) ==
    /\ pc[w] = "idle_assert"
    /\ workers_mutex' = NoWorker
    /\ IF remaining_targets = <<>>
       THEN /\ Goto(w, "returned_ok")
            /\ UNCHANGED remaining_targets
       ELSE /\ Goto(w, "panic_remaining_work")
            /\ remaining_targets' = Tail(remaining_targets)
    /\ UnchangedShared
    /\ UNCHANGED <<target, pending, outcome, ever_queued>>

\* lines 145-149: the second try_pop, under the mutex
IdlePop(w) ==
    /\ pc[w] = "idle_pop"
    /\ IF remaining_targets # <<>>
       THEN /\ target' = [target EXCEPT ![w] = Head(remaining_targets)]
            /\ remaining_targets' = Tail(remaining_targets)
            /\ workers_mutex' = NoWorker
            /\ Goto(w, "compute")
       ELSE /\ Goto(w, "idle_dec")
            /\ UNCHANGED <<target, remaining_targets, workers_mutex>>
    /\ UnchangedShared
    /\ UNCHANGED <<pending, outcome, ever_queued>>

\* IdleDec with the `*lock == 0` test left out: the first worker that finds
\* the queue empty stores done
IdleDec_FirstIdle(w) ==
    /\ pc[w] = "idle_dec"
    /\ running_workers > 0
    /\ running_workers' = running_workers - 1
    /\ done' = TRUE
    /\ Goto(w, "idle_notify")
    /\ UNCHANGED workers_mutex
    /\ UNCHANGED <<fixedVars, remaining_targets, results,
                   waiters, waiting_targets, failed, waiters_lock,
                   results_lock, target, pending, outcome, produced,
                   ever_queued>>

\* lines 150-162: decrement; the last worker stores done, the others wait
IdleDec(w) ==
    /\ pc[w] = "idle_dec"
    /\ running_workers > 0      \* checked_sub(1).unwrap()
    /\ running_workers' = running_workers - 1
    /\ IF running_workers - 1 = 0
       THEN /\ done' = TRUE
            /\ Goto(w, "idle_notify")
            /\ UNCHANGED workers_mutex
       ELSE /\ Goto(w, "parked")           \* work_cond.wait(&mut lock)
            /\ workers_mutex' = NoWorker
            /\ UNCHANGED done
    /\ UNCHANGED <<fixedVars, remaining_targets, results,
                   waiters, waiting_targets, failed, waiters_lock,
                   results_lock, target, pending, outcome, produced,
                   ever_queued>>

\* lines 158-159: notify_all, return Ok(())
IdleNotify(w) ==
    /\ pc[w] = "idle_notify"
    /\ pc' = [notify_all(pc) EXCEPT ![w] = "returned_ok"]
    /\ workers_mutex' = NoWorker
    /\ UnchangedShared
    /\ UNCHANGED <<remaining_targets, target, pending, outcome, ever_queued>>

\* lines 162-164: the woken worker re-locks the mutex, *lock += 1, loops
Woken(w) ==
    /\ pc[w] = "woken"
    /\ workers_mutex = NoWorker
    /\ running_workers' = running_workers + 1
    /\ Goto(w, "idle_lock")
    /\ UNCHANGED <<fixedVars, remaining_targets, results,
                   waiters, waiting_targets, done, failed, workers_mutex,
                   waiters_lock, results_lock, target, pending, outcome,
                   produced, ever_queued>>

\* line 168: try_compute_target(&target); try_take holds results.read()
Compute(w) ==
    /\ pc[w] = "compute"
    /\ Requires(target[w]) # <<>> =>
          \A i \in DOMAIN results_lock : results_lock[i].mode = "read"
    /\ \E o \in try_compute_target(target[w], results) :
          /\ outcome' = [outcome EXCEPT ![w] = o]
          /\ Goto(w, CASE o.kind = "Ok" -> "ok_lock"
                       [] o.kind = "WaitingFor" -> "wait_lock"
                       [] o.kind = "MappingError" -> "err_lock"
                       [] OTHER -> "panic_redundant")
    /\ UnchangedShared
    /\ UNCHANGED <<remaining_targets, workers_mutex, target, pending,
                   ever_queued>>

\* OkLock taking the write guard of results where the code takes the
\* waiters lock
OkLock_ResultsFirst(w) ==
    /\ pc[w] = "ok_lock"
    /\ results_lock = <<>>
    /\ results_lock' = <<[holder |-> w, mode |-> "write"]>>
    /\ Goto(w, "ok_results")
    /\ UNCHANGED <<fixedVars, remaining_targets, results,
                   waiters, waiting_targets, done, failed, running_workers,
                   workers_mutex, waiters_lock, target, pending, outcome,
                   produced, ever_queued>>

\* line 170: let mut lock = self.waiters.write()
OkLock(w) ==
    /\ pc[w] = "ok_lock"
    /\ waiters_lock = NoWorker
    /\ waiters_lock' = w
    /\ Goto(w, "ok_results")
    /\ UNCHANGED <<fixedVars, remaining_targets, results,
                   waiters, waiting_targets, done, failed, running_workers,
                   workers_mutex, results_lock, target, pending, outcome,
                   produced, ever_queued>>

\* line 171: let mut results = self.results.write()
OkResults(w) ==
    /\ pc[w] = "ok_results"
    /\ results_lock = <<>>
    /\ results_lock' = <<[holder |-> w, mode |-> "write"]>>
    /\ Goto(w, "ok_insert")
    /\ UNCHANGED <<fixedVars, remaining_targets, results,
                   waiters, waiting_targets, done, failed, running_workers,
                   workers_mutex, waiters_lock, target, pending, outcome,
                   produced, ever_queued>>

\* lines 172-175: results.insert, drop(results), lock.remove(&target), drop(lock)
OkInsert(w) ==
    /\ pc[w] = "ok_insert"
    /\ results' = results \cup {target[w]}
    /\ produced' = [produced EXCEPT ![target[w]] = @ + 1]
    /\ results_lock' = <<>>
    /\ waiters_lock' = NoWorker
    /\ waiters' = MapRemove(waiters, target[w])
    /\ IF target[w] \in DOMAIN waiters /\ waiters[target[w]] # <<>>
       THEN /\ pending' = [pending EXCEPT ![w] = waiters[target[w]]]
            /\ Goto(w, "ok_waiters")
       ELSE /\ Goto(w, "pop")
            /\ UNCHANGED pending
    /\ UNCHANGED <<fixedVars, remaining_targets,
                   waiting_targets, done, failed, running_workers,
                   workers_mutex, target, outcome, ever_queued>>

\* waiting_targets.get_mut(t) blocks while another worker holds the guard
\* of the entry, which the WaitingFor branch does over its whole loop
EntryFree(w, t) ==
    \A v \in Workers \ {w} : ~(pc[v] = "wait_register" /\ target[v] = t)

\* OkWaiters with the `dependencies.is_empty()` test left out: the waiter is
\* pushed as soon as one of its dependencies is there
OkWaiters_PushAlways(w) ==
    /\ pc[w] = "ok_waiters"
    /\ pending[w] # <<>>
    /\ EntryFree(w, Head(pending[w]))
    /\ LET waiting_target == Head(pending[w]) IN
       IF target[w] \notin waiting_targets[waiting_target]
       THEN /\ Goto(w, "panic_not_a_dependency")
            /\ UNCHANGED <<waiting_targets, remaining_targets, ever_queued,
                           pending>>
       ELSE /\ waiting_targets' =
                   [waiting_targets EXCEPT ![waiting_target] = @ \ {target[w]}]
            /\ push(waiting_target)
            /\ pending' = [pending EXCEPT ![w] = Tail(@)]
            /\ Goto(w, IF Tail(pending[w]) = <<>>
                          THEN "ok_notify" ELSE "ok_waiters")
    /\ UNCHANGED <<fixedVars, results, waiters, done,
                   failed, running_workers, workers_mutex, waiters_lock,
                   results_lock, target, outcome, produced>>

\* lines 177-189: one iteration of `for waiting_target in &waiters`
OkWaiters(w) ==
    /\ pc[w] = "ok_waiters"
    /\ pending[w] # <<>>
    /\ EntryFree(w, Head(pending[w]))
    /\ LET waiting_target == Head(pending[w]) IN
       IF target[w] \notin waiting_targets[waiting_target]
       THEN /\ Goto(w, "panic_not_a_dependency")
            /\ UNCHANGED <<waiting_targets, remaining_targets, ever_queued,
                           pending>>
       ELSE /\ waiting_targets' =
                   [waiting_targets EXCEPT ![waiting_target] = @ \ {target[w]}]
            /\ IF waiting_targets[waiting_target] \ {target[w]} = {}
               THEN push(waiting_target)
               ELSE UNCHANGED <<remaining_targets, ever_queued>>
            /\ pending' = [pending EXCEPT ![w] = Tail(@)]
            /\ Goto(w, IF Tail(pending[w]) = <<>>
                          THEN "ok_notify" ELSE "ok_waiters")
    /\ UNCHANGED <<fixedVars, results, waiters, done,
                   failed, running_workers, workers_mutex, waiters_lock,
                   results_lock, target, outcome, produced>>

\* lines 190-193: if !waiters.is_empty() { work_cond.notify_all() }
OkNotify(w) ==
    /\ pc[w] = "ok_notify"
    /\ pc' = [notify_all(pc) EXCEPT ![w] = "pop"]
    /\ UnchangedShared
    /\ UNCHANGED <<remaining_targets, workers_mutex, target, pending,
                   outcome, ever_queued>>

\* lines 199-226: waiters.write(), (debug) results.read(), the
\* waiting_targets entry of `target` is fetched or created
WaitLock(w) ==
    /\ pc[w] = "wait_lock"
    /\ waiters_lock = NoWorker
    /\ waiters_lock' = w
    /\ IF debug_build
       THEN /\ \A i \in DOMAIN results_lock : results_lock[i].mode = "read"
            /\ results_lock' =
                   Append(results_lock, [holder |-> w, mode |-> "read"])
       ELSE UNCHANGED results_lock
    /\ waiting_targets' =
          IF target[w] \in DOMAIN waiting_targets THEN waiting_targets
          ELSE MapPut(waiting_targets, target[w], {})
    /\ pending' = [pending EXCEPT ![w] = outcome[w].deps]
    /\ Goto(w, "wait_register")
    /\ UNCHANGED <<fixedVars, remaining_targets, results,
                   waiters, done, failed, running_workers, workers_mutex,
                   target, outcome, produced, ever_queued>>

ReleaseRead(w) ==
    LET Others(h) == h.holder # w IN SelectSeq(results_lock, Others)

\* lines 227-249: one iteration of `for dependency in dependencies`; the
\* guards are dropped after the last one (or by the unwinding of a panic)
WaitRegister(w) ==
    /\ pc[w] = "wait_register"
    /\ IF pending[w] = <<>>
       THEN /\ waiters_lock' = NoWorker
            /\ results_lock' = ReleaseRead(w)
            /\ Goto(w, "pop")
            /\ UNCHANGED <<waiting_targets, waiters, remaining_targets,
                           ever_queued, pending>>
       ELSE LET dependency == Head(pending[w]) IN
            IF dependency \in waiting_targets[target[w]]
            THEN \* panic!("{} already waited for {}")
                 /\ Goto(w, "panic_already_waited")
                 /\ waiters_lock' = NoWorker
                 /\ results_lock' = ReleaseRead(w)
                 /\ UNCHANGED <<waiting_targets, waiters, remaining_targets,
                                ever_queued, pending>>
            ELSE IF dependency \notin DOMAIN waiters
                    /\ debug_build /\ dependency \in results
            THEN \* debug_assert!(!results.contains_key(&dependency))
                 /\ Goto(w, "panic_already_computed")
                 /\ waiting_targets' = [waiting_targets EXCEPT
                        ![target[w]] = @ \cup {dependency}]
                 /\ waiters_lock' = NoWorker
                 /\ results_lock' = ReleaseRead(w)
                 /\ UNCHANGED <<waiters, remaining_targets, ever_queued,
                                pending>>
            ELSE /\ waiting_targets' = [waiting_targets EXCEPT
                        ![target[w]] = @ \cup {dependency}]
                 /\ IF dependency \in DOMAIN waiters
                    THEN /\ waiters' = [waiters EXCEPT
                                ![dependency] = Append(@, target[w])]
                         /\ UNCHANGED <<remaining_targets, ever_queued>>
                    ELSE /\ push(dependency)
                         /\ waiters' = MapPut(waiters, dependency,
                                              <<target[w]>>)
                 /\ pending' = [pending EXCEPT ![w] = Tail(@)]
                 /\ Goto(w, "wait_register")
                 /\ UNCHANGED <<waiters_lock, results_lock>>
    /\ UNCHANGED <<fixedVars, results, done, failed,
                   running_workers, workers_mutex, target, outcome, produced>>

\* line 253: `let _ = self.running_workers.lock();` - the guard is bound to
\* `_`, so it is dropped at once: the mutex is taken and released
ErrLock(w) ==
    /\ pc[w] = "err_lock"
    /\ workers_mutex = NoWorker
    /\ Goto(w, "err_cas")
    /\ UnchangedShared
    /\ UNCHANGED <<remaining_targets, workers_mutex, target, pending,
                   outcome, ever_queued>>

\* ErrCas with a plain store in place of the compare-and-swap: every
\* failing worker goes on to set done
ErrCas_Store(w) ==
    /\ pc[w] = "err_cas"
    /\ failed' = TRUE
    /\ Goto(w, "err_swap")
    /\ UNCHANGED <<fixedVars, remaining_targets, results,
                   waiters, waiting_targets, done, running_workers,
                   workers_mutex, waiters_lock, results_lock, target, pending,
                   outcome, produced, ever_queued>>

\* lines 254-257: failed.compare_and_swap(false, true)
ErrCas(w) ==
    /\ pc[w] = "err_cas"
    /\ failed' = TRUE
    /\ Goto(w, IF failed THEN "returned_ok" ELSE "err_swap")
    /\ UNCHANGED <<fixedVars, remaining_targets, results,
                   waiters, waiting_targets, done, running_workers,
                   workers_mutex, waiters_lock, results_lock, target, pending,
                   outcome, produced, ever_queued>>

\* lines 258-259: was_done = done.swap(true); assert!(!was_done)
ErrSwap(w) ==
    /\ pc[w] = "err_swap"
    /\ done' = TRUE
    /\ Goto(w, IF done THEN "panic_was_done" ELSE "err_notify")
    /\ UNCHANGED <<fixedVars, remaining_targets, results,
                   waiters, waiting_targets, failed, running_workers,
                   workers_mutex, waiters_lock, results_lock, target, pending,
                   outcome, produced, ever_queued>>

\* lines 261-262: notify_all, return Err(cause)
ErrNotify(w) ==
    /\ pc[w] = "err_notify"
    /\ pc' = [notify_all(pc) EXCEPT ![w] = "returned_err"]
    /\ UnchangedShared
    /\ UNCHANGED <<remaining_targets, workers_mutex, target, pending,
                   outcome, ever_queued>>

compute_target_work(w) ==
    \/ Start(w)
    \/ Pop(w)
    \/ IdleLock(w)
    \/ IdleAssert(w)
    \/ IdlePop(w)
    \/ IdleDec(w)
    \/ IdleNotify(w)
    \/ Woken(w)
    \/ Compute(w)
    \/ OkLock(w)
    \/ OkResults(w)
    \/ OkInsert(w)
    \/ OkWaiters(w)
    \/ OkNotify(w)
    \/ WaitLock(w)
    \/ WaitRegister(w)
    \/ ErrLock(w)
    \/ ErrCas(w)
    \/ ErrSwap(w)
    \/ ErrNotify(w)

SchedNext == \E w \in Workers : compute_target_work(w)

(***************************************************************************)
(* Part II: RangeMapApplier::apply over one file                           *)
(*                                                                         *)
(* A file is a sequence of one-byte characters.  A referenced member is    *)
(* identified by its name (declaring class and signature are the same for  *)
(* every member of the model), so the snapshot is a pair of name tables.   *)
(***************************************************************************)
\* longest source file
MaxSrcLen == 3

\* most references in one file (fields and methods together)
MaxRefs == 2

\* most entries in the two member tables together
MaxMapped == 2

SrcAlphabet == {"a", "b"}

\* the names members have in the source, and the names they are mapped to
MemberNames == {<<"a">>, <<"b", "b">>}

RenamedNames == {<<"a">>, <<"b", "b">>, <<"c">>}

RECURSIVE Strings(_, _)
Strings(A, n) ==
    IF n = 0 THEN {<<>>}
    ELSE LET shorter == Strings(A, n - 1)
         IN  shorter \cup {Append(x, c) : x \in shorter, c \in A}

FileLocation(start, end) == [start |-> start, end |-> end]

\* the derived Ord of FileLocation: by start, then by end
LocationGreater(a, b) ==
    a.start > b.start \/ (a.start = b.start /\ a.end > b.end)

has_overlap(self, other) ==
    IF LocationGreater(self, other)
    THEN other.end > self.start
    ELSE self.end > other.start

size(location) == location.end - location.start

\* MemberReference::Field / MemberReference::Method around a reference
MemberReference(kind, reference) ==
    [kind |-> kind, name |-> reference.name, location |-> reference.location]

Tagged(kind, refs) == [i \in DOMAIN refs |-> MemberReference(kind, refs[i])]

\* slice::sort_by is stable: r goes behind everything that does not start
\* after it
RECURSIVE InsertByStart(_, _)
InsertByStart(r, s) ==
    IF s = <<>> THEN <<r>>
    ELSE IF Head(s).location.start <= r.location.start
         THEN <<Head(s)>> \o InsertByStart(r, Tail(s))
         ELSE <<r>> \o s

RECURSIVE sort_by_start(_)
sort_by_start(s) ==
    IF s = <<>> THEN <<>>
    ELSE InsertByStart(s[Len(s)], sort_by_start(SubSeq(s, 1, Len(s) - 1)))

\* sorted() without the sort: the fields, then the methods
sorted_Unsorted(field_references, method_references) ==
    Tagged("Field", field_references) \o Tagged("Method", method_references)

\* FileRanges::sorted: the fields, then the methods, sorted by start
sorted(field_references, method_references) ==
    sort_by_start(Tagged("Field", field_references)
                  \o Tagged("Method", method_references))

\* MappingsSnapshot::try_get_field_name / try_get_method_name
HasName(table, name) == name \in DOMAIN table

\* remap_reference: the name pushed on `out` and the returned flag
remap_reference(reference, mappings) ==
    IF reference.kind = "Field"
    THEN IF HasName(mappings.fields, reference.name)
         THEN [changed |-> mappings.fields[reference.name] # reference.name,
               new_name |-> mappings.fields[reference.name]]
         ELSE [changed |-> FALSE, new_name |-> reference.name]
    ELSE IF HasName(mappings.methods, reference.name)
         THEN [changed |-> mappings.methods[reference.name] = reference.name,
               new_name |-> mappings.methods[reference.name]]
         ELSE [changed |-> FALSE, new_name |-> reference.name]

\* the references a file can carry: a name and a span as long as the name
References ==
    {[name |-> n, location |-> FileLocation(start, start + Len(n))] :
        n \in MemberNames, start \in 0..MaxSrcLen}

RECURSIVE RefLists(_)
RefLists(n) ==
    IF n = 0 THEN {<<>>}
    ELSE LET shorter == RefLists(n - 1)
         IN  shorter \cup {Append(l, r) : l \in shorter, r \in References}

\* sorted() asserts that the references it compares do not overlap
NoOverlap(refs) ==
    \A i, j \in DOMAIN refs :
        i # j => ~has_overlap(refs[i].location, refs[j].location)

\* partial functions MemberNames -> RenamedNames
NameTables ==
    UNION {[D -> RenamedNames] : D \in SUBSET MemberNames}

ApplierIdle ==
    /\ ap_input = <<>>
    /\ ap_field_references = <<>>
    /\ ap_method_references = <<>>
    /\ ap_mappings = [fields |-> <<>>, methods |-> <<>>]
    /\ ap_references = <<>>
    /\ ap_index = 0
    /\ ap_output = <<>>
    /\ ap_num_changes = 0
    /\ ap_status = "ready"

ApplierInit ==
    /\ ap_input \in Strings(SrcAlphabet, MaxSrcLen)
    /\ ap_field_references \in RefLists(MaxRefs)
    /\ ap_method_references \in RefLists(MaxRefs)
    /\ Len(ap_field_references) + Len(ap_method_references) <= MaxRefs
    /\ NoOverlap(ap_field_references \o ap_method_references)
    /\ \E f \in NameTables, m \in NameTables :
          /\ Cardinality(DOMAIN f) + Cardinality(DOMAIN m) <= MaxMapped
          /\ ap_mappings = [fields |-> f, methods |-> m]
    /\ ap_references = <<>>
    /\ ap_index = 0
    /\ ap_output = <<>>
    /\ ap_num_changes = 0
    /\ ap_status = "ready"

ApplierInputs ==
    <<ap_input, ap_field_references, ap_method_references, ap_mappings>>

\* lines 216-220: ranges.sorted() and the locals
ApplyBegin ==
    /\ ap_status = "ready"
    /\ ap_references' = sorted(ap_field_references, ap_method_references)
    /\ ap_index' = 0
    /\ ap_num_changes' = 0
    /\ ap_status' = "running"
    /\ UNCHANGED <<ApplierInputs, ap_output, schedVars, storeVars,
                   moreVars>>

\* lines 221-265: one iteration of `for next_reference in references`
ApplyReference ==
    /\ ap_status = "running"
    /\ ap_references # <<>>
    /\ LET next_reference == Head(ap_references)
           location == next_reference.location
           gap == SubSeq(ap_input, ap_index + 1, location.start)
           rest == SubSeq(ap_input, ap_index + 1, Len(ap_input))
           remapped == remap_reference(next_reference, ap_mappings)
       IN
       IF location.start < ap_index
       THEN \* assert!(location.start as u64 >= index)
            /\ ap_status' = "panic"
            /\ UNCHANGED <<ap_references, ap_index, ap_output,
                           ap_num_changes>>
       ELSE IF Len(ap_input) < location.start
       THEN \* io::copy stopped short of the span: UnexpectedEof
            /\ ap_status' = "eof"
            /\ ap_output' = ap_output \o rest
            /\ ap_index' = Len(ap_input)
            /\ UNCHANGED <<ap_references, ap_num_changes>>
       ELSE IF Len(ap_input) < location.end
       THEN \* read_exact fails
            /\ ap_status' = "eof"
            /\ ap_output' = ap_output \o gap
            /\ ap_index' = location.start
            /\ UNCHANGED <<ap_references, ap_num_changes>>
       ELSE IF SubSeq(ap_input, location.start + 1, location.end)
                  # next_reference.name
       THEN \* assert_eq!(original_name, expected_name)
            /\ ap_status' = "panic"
            /\ ap_output' = ap_output \o gap
            /\ ap_index' = location.end
            /\ UNCHANGED <<ap_references, ap_num_changes>>
       ELSE /\ ap_output' = ap_output \o gap \o remapped.new_name
            /\ ap_index' = location.start + size(location)
            /\ ap_num_changes' =
                  IF remapped.changed THEN ap_num_changes + 1
                  ELSE ap_num_changes
            /\ ap_references' = Tail(ap_references)
            /\ UNCHANGED ap_status
    /\ UNCHANGED <<ApplierInputs, schedVars, storeVars,
                   moreVars>>

\* lines 266-268: io::copy of what is left, Ok(num_changes)
ApplyFinish ==
    /\ ap_status = "running"
    /\ ap_references = <<>>
    /\ ap_output' = ap_output \o SubSeq(ap_input, ap_index + 1, Len(ap_input))
    /\ ap_index' = Len(ap_input)
    /\ ap_status' = "ok"
    /\ UNCHANGED <<ApplierInputs, ap_references, ap_num_changes, schedVars,
                   storeVars, moreVars>>

apply == ApplyBegin \/ ApplyReference \/ ApplyFinish

(***************************************************************************)
(* Part III: descriptors (types.rs)                                        *)
(*                                                                         *)
(* Strings are sequences of one-character strings; <<>> is the empty       *)
(* string.                                                                 *)
(***************************************************************************)
Str1(a) == <<a>>

\* str::find(c): the 1-based index of the first c, 0 for None
find(s, c) ==
    IF \E i \in DOMAIN s : s[i] = c
    THEN CHOOSE i \in DOMAIN s : s[i] = c /\ \A j \in 1..(i - 1) : s[j] # c
    ELSE 0

\* str::find(|c| c != '['), 1-based, 0 for None
find_not_bracket(s) ==
    IF \E i \in DOMAIN s : s[i] # "["
    THEN CHOOSE i \in DOMAIN s : s[i] # "[" /\ \A j \in 1..(i - 1) : s[j] = "["
    ELSE 0

\* PrimitiveType::from_descriptor
PrimitiveType == {"B", "S", "I", "J", "D", "F", "C", "Z", "V"}

\* JavaType: a class or a primitive, under `dimensions` array levels
\* (0: not an array; the element of an Array is never an array itself)
ClassType(class) == [kind |-> "Class", dimensions |-> 0, name |-> class]

PrimitiveTypeOf(c) ==
    [kind |-> "Primitive", dimensions |-> 0, name |-> Str1(c)]

ArrayType(dimensions, element_type) ==
    [element_type EXCEPT !.dimensions = dimensions]

ParseError(error) ==
    [ok |-> FALSE, size |-> 0, type |-> PrimitiveTypeOf("V"),
     error |-> error]

Parsed(n, type) == [ok |-> TRUE, size |-> n, type |-> type, error |-> "none"]

\* JavaType::partially_parse_descriptor: (size, type) or an error
RECURSIVE partially_parse_descriptor(_)
partially_parse_descriptor(descriptor) ==
    IF descriptor = <<>> THEN ParseError("EmptyDescriptor")
    ELSE IF descriptor[1] = "L" THEN
        LET end == find(descriptor, ";") IN
        IF end = 0 THEN ParseError("UnclosedClassDescriptor")
        ELSE Parsed(end, ClassType(SubSeq(descriptor, 2, end - 1)))
    ELSE IF descriptor[1] = "[" THEN
        LET first == find_not_bracket(descriptor) IN
        IF first = 0 THEN ParseError("EmptyArray")
        ELSE LET inner == partially_parse_descriptor(
                              SubSeq(descriptor, first, Len(descriptor)))
             IN  IF inner.ok
                 THEN Parsed(inner.size + (first - 1),
                             ArrayType(first - 1, inner.type))
                 ELSE ParseError("InvalidElementDescriptor")
    ELSE IF descriptor[1] \in PrimitiveType
         THEN Parsed(1, PrimitiveTypeOf(descriptor[1]))
         ELSE ParseError("InvalidStart")

\* JavaType::parse_descriptor: the whole string must be one type
parse_descriptor(descriptor) ==
    LET partial == partially_parse_descriptor(descriptor) IN
    IF partial.ok /\ Len(descriptor) > partial.size
    THEN ParseError("UnexpectedlyLong")
    ELSE partial

\* JavaType::write_descriptor
write_descriptor(type) ==
    [i \in 1..type.dimensions |-> "["]
    \o (IF type.kind = "Class" THEN <<"L">> \o type.name \o <<";">>
        ELSE type.name)

\* JavaType::remap_class; the closure is a function over the class names
\* it is applied to
remap_class(type, transformer) ==
    IF type.kind = "Class"
    THEN [type EXCEPT !.name = transformer[type.name]]
    ELSE type

\* the parameter loop of MethodSignature::parse over descriptor[index..end]
RECURSIVE parse_parameters(_)
parse_parameters(s) ==
    IF s = <<>> THEN [ok |-> TRUE, types |-> <<>>]
    ELSE LET first == partially_parse_descriptor(s) IN
         IF ~first.ok THEN [ok |-> FALSE, types |-> <<>>]
         ELSE LET others == parse_parameters(
                                SubSeq(s, first.size + 1, Len(s)))
              IN  [ok |-> others.ok,
                   types |-> <<first.type>> \o others.types]

\* MethodSignature::parse
parse(descriptor) ==
    LET Failed(e) == [ok |-> FALSE, parameter_types |-> <<>>,
                      return_type |-> PrimitiveTypeOf("V"), error |-> e]
    IN
    IF descriptor = <<>> THEN Failed("EmptyDescriptor")
    ELSE IF descriptor[1] # "(" THEN Failed("UnopenedDescriptor")
    ELSE LET end == find(descriptor, ")") IN
         IF end = 0 THEN Failed("UnclosedDescriptor")
         ELSE LET parameters == parse_parameters(
                                    SubSeq(descriptor, 2, end - 1))
                  return == parse_descriptor(
                                SubSeq(descriptor, end + 1, Len(descriptor)))
              IN  IF ~parameters.ok THEN Failed("InvalidParameterType")
                  ELSE IF ~return.ok THEN Failed("InvalidReturnType")
                  ELSE [ok |-> TRUE, parameter_types |-> parameters.types,
                        return_type |-> return.type, error |-> "none"]

RECURSIVE Concat(_)
Concat(ss) == IF ss = <<>> THEN <<>> ELSE Head(ss) \o Concat(Tail(ss))

\* ParsedMethodSignature::write_descriptor
write_signature(signature) ==
    <<"(">>
    \o Concat([i \in DOMAIN signature.parameter_types |->
                 write_descriptor(signature.parameter_types[i])])
    \o <<")">> \o write_descriptor(signature.return_type)

\* ParsedMethodSignature::remap_class
remap_signature_classes(signature, transformer) ==
    [signature EXCEPT
        !.parameter_types = [i \in DOMAIN signature.parameter_types |->
                               remap_class(signature.parameter_types[i],
                                           transformer)],
        !.return_type = remap_class(signature.return_type, transformer)]

\* the classes a parsed signature names
SignatureClasses(signature) ==
    LET all == <<signature.return_type>> \o signature.parameter_types
    IN  {all[i].name : i \in {j \in DOMAIN all : all[j].kind = "Class"}}

\* JavaClass::parse_internal_name: is the name accepted
parse_internal_name(name) ==
    IF name = <<>> THEN "EmptyClassName"
    ELSE IF debug_build /\ find(name, ".") # 0 THEN "UnexpectedDot"
    ELSE "ok"

(***************************************************************************)
(* Part III: MappingsBuilder (mappings/mod.rs)                             *)
(*                                                                         *)
(* An OrderMap is the sequence of its <<key, value>> entries in insertion  *)
(* order.                                                                  *)
(***************************************************************************)
contains_key(map, key) == \E i \in DOMAIN map : map[i][1] = key

get_index(map, key) == CHOOSE i \in DOMAIN map : map[i][1] = key

get(map, key) == map[get_index(map, key)][2]

\* OrderMap::insert: a present key keeps its place and takes the new value
insert(map, key, value) ==
    IF contains_key(map, key)
    THEN [map EXCEPT ![get_index(map, key)] = <<key, value>>]
    ELSE Append(map, <<key, value>>)

RECURSIVE insert_all(_, _)
insert_all(map, entries) ==
    IF entries = <<>> THEN map
    ELSE insert_all(insert(map, Head(entries)[1], Head(entries)[2]),
                    Tail(entries))

keys(map) == {map[i][1] : i \in DOMAIN map}

values(map) == {map[i][2] : i \in DOMAIN map}

FieldData(class, name) == [class |-> class, name |-> name]

MethodData(class, name, signature) ==
    [class |-> class, name |-> name, signature |-> signature]

MappingsBuilder(classes, field_names, method_names) ==
    [classes |-> classes, field_names |-> field_names,
     method_names |-> method_names]

\* MappingsBuilder::new
NewBuilder == MappingsBuilder(<<>>, <<>>, <<>>)

insert_class(builder, original_class, new_class) ==
    [builder EXCEPT !.classes = insert(@, original_class, new_class)]

insert_field(builder, original_field, new_name) ==
    [builder EXCEPT !.field_names = insert(@, original_field, new_name)]

insert_method(builder, original_method, new_name) ==
    [builder EXCEPT !.method_names = insert(@, original_method, new_name)]

\* Mappings::get_class: the renamed class, the class itself when absent
get_class(mappings, original) ==
    IF contains_key(mappings.classes, original)
    THEN get(mappings.classes, original)
    ELSE original

\* a store that takes the renamed descriptor to be the original one
compute_signature_Verbatim(builder, old_signature) == old_signature

\* the descriptor compute_signatures stores for old_signature
\* (parse().expect("Invalid descriptor"): the signatures of a store parse)
compute_signature(builder, old_signature) ==
    LET parsed == parse(old_signature)
        GetClass == [class \in SignatureClasses(parsed) |->
                       get_class(builder, class)]
    IN  write_signature(remap_signature_classes(parsed, GetClass))

\* MappingsBuilder::compute_signatures, as the function of its entries
compute_signatures(builder) ==
    [s \in {k.signature : k \in keys(builder.method_names)} |->
        compute_signature(builder, s)]

\* MappingsBuilderFieldIter: (original, renamed) for every field
fields(builder) ==
    [i \in DOMAIN builder.field_names |->
        LET original == builder.field_names[i][1] IN
        <<original,
          FieldData(get_class(builder, original.class),
                    builder.field_names[i][2])>>]

\* MappingsBuilderMethodIter: (original, renamed) for every method
methods(builder) ==
    LET signature_cache == compute_signatures(builder) IN
    [i \in DOMAIN builder.method_names |->
        LET original == builder.method_names[i][1] IN
        <<original,
          MethodData(get_class(builder, original.class),
                     builder.method_names[i][2],
                     signature_cache[original.signature])>>]

\* (renamed, original.name) / (renamed, original) of every entry
Flipped(entries) ==
    [i \in DOMAIN entries |-> <<entries[i][2], entries[i][1].name>>]

FlippedClasses(classes) ==
    [i \in DOMAIN classes |-> <<classes[i][2], classes[i][1]>>]

\* reverse() with the classes reversed first: the members are rebuilt
\* against the reversed class table
reverse_ClassesFirst(builder) ==
    LET reversed_classes == insert_all(<<>>, FlippedClasses(builder.classes))
        moved == [builder EXCEPT !.classes = reversed_classes]
    IN  MappingsBuilder(reversed_classes,
                        insert_all(<<>>, Flipped(fields(moved))),
                        insert_all(<<>>, Flipped(methods(moved))))

\* MappingsBuilder::reverse: methods and fields are rebuilt against the
\* classes as they were, the classes are reversed last
reverse(builder) ==
    MappingsBuilder(insert_all(<<>>, FlippedClasses(builder.classes)),
                    insert_all(<<>>, Flipped(fields(builder))),
                    insert_all(<<>>, Flipped(methods(builder))))

\* MappingsBuilder::snapshot
snapshot(builder) ==
    LET signatures == compute_signatures(builder)
        classes == insert_all(<<>>, builder.classes)
        ClassOf(c) == IF contains_key(classes, c) THEN get(classes, c) ELSE c
    IN  [classes |-> classes,
         fields |-> insert_all(<<>>,
            [i \in DOMAIN builder.field_names |->
                LET original == builder.field_names[i][1] IN
                <<original, FieldData(ClassOf(original.class),
                                      builder.field_names[i][2])>>]),
         methods |-> insert_all(<<>>,
            [i \in DOMAIN builder.method_names |->
                LET original == builder.method_names[i][1] IN
                <<original, MethodData(ClassOf(original.class),
                                       builder.method_names[i][2],
                                       signatures[original.signature])>>]),
         signature_cache |-> signatures]

(***************************************************************************)
(* Part III: the binary codec (mappings/binary.rs)                         *)
(*                                                                         *)
(* The stream is the sequence of values written: a length-prefixed string  *)
(* is one value (the string), an integer is one value (the number).        *)
(***************************************************************************)
\* ClassData; `renamed` is an Option: <<>> for None, <<class>> for Some
ClassData(renamed, class_fields, class_methods) ==
    [renamed |-> renamed, fields |-> class_fields, methods |-> class_methods]

DefaultClassData == ClassData(<<>>, <<>>, <<>>)

\* an encoder that keeps every member, renamed or not
Renames_Always(original, renamed) == TRUE

\* does the encoder keep the member (original.name != renamed.name)
Renames(original, renamed) == original.name # renamed.name

\* the loops over mappings.fields() and mappings.methods(): the entry of
\* the declaring class is created when missing, renaming members are pushed
RECURSIVE collect_members(_, _, _)
collect_members(known_classes, entries, list) ==
    IF entries = <<>> THEN known_classes
    ELSE LET original == Head(entries)[1]
             renamed == Head(entries)[2]
             with_class ==
                 IF contains_key(known_classes, original.class)
                 THEN known_classes
                 ELSE Append(known_classes,
                             <<original.class, DefaultClassData>>)
             i == get_index(with_class, original.class)
             pushed ==
                 IF Renames(original, renamed)
                 THEN [with_class EXCEPT ![i][2][list] =
                          Append(@, <<original, renamed>>)]
                 ELSE with_class
         IN  collect_members(pushed, Tail(entries), list)

\* lines 123-152: known_classes
known_classes_of(mappings) ==
    LET from_classes ==
            insert_all(<<>>,
                [i \in DOMAIN mappings.classes |->
                    <<mappings.classes[i][1],
                      ClassData(<<mappings.classes[i][2]>>, <<>>, <<>>)>>])
    IN  collect_members(
            collect_members(from_classes, mappings.fields, "fields"),
            mappings.methods, "methods")

write_methods(class_methods) ==
    Concat([i \in DOMAIN class_methods |->
              <<class_methods[i][1].name, class_methods[i][2].name,
                class_methods[i][1].signature, <<>>>>])

write_fields(class_fields) ==
    Concat([i \in DOMAIN class_fields |->
              <<class_fields[i][1].name, class_fields[i][2].name>>])

\* lines 154-184: one class of the stream
write_class(original, class_data) ==
    <<original,
      IF class_data.renamed = <<>> THEN <<>> ELSE class_data.renamed[1],
      Len(class_data.methods)>>
    \o write_methods(class_data.methods)
    \o <<Len(class_data.fields)>>
    \o write_fields(class_data.fields)

\* CompressedMappingsEncoder::encode
encode(mappings) ==
    LET known_classes == known_classes_of(mappings) IN
    <<Len(known_classes)>>
    \o Concat([i \in DOMAIN known_classes |->
                 write_class(known_classes[i][1], known_classes[i][2])])

Decoded(builder, position, error) ==
    [builder |-> builder, position |-> position, error |-> error]

\* lines 267-309: `count` methods of original_class, read after `position`
\* values of the stream (lenient is false)
RECURSIVE decode_methods(_, _, _, _, _)
decode_methods(stream, position, count, original_class, builder) ==
    IF count = 0 THEN Decoded(builder, position, "none")
    ELSE IF position + 1 > Len(stream)
    THEN Decoded(builder, Len(stream), "io")
    ELSE IF stream[position + 1] = <<>>
    THEN Decoded(builder, position + 1, "InvalidName")
    ELSE IF position + 3 > Len(stream)
    THEN Decoded(builder, Len(stream), "io")
    ELSE IF ~parse(stream[position + 3]).ok
    THEN Decoded(builder, position + 3, "InvalidSignature")
    ELSE IF position + 4 > Len(stream)
    THEN Decoded(builder, Len(stream), "io")
    ELSE IF stream[position + 4] # <<>> /\ ~parse(stream[position + 4]).ok
    THEN Decoded(builder, position + 4, "InvalidSignature")
    ELSE
    LET original_name == stream[position + 1]
        revised_name == IF stream[position + 2] = <<>> THEN original_name
                        ELSE stream[position + 2]
        original_signature == stream[position + 3]
        original_data ==
            MethodData(original_class, original_name, original_signature)
        changed == /\ stream[position + 4] # <<>>
                   /\ stream[position + 4] # original_signature
    IN  IF original_name # revised_name
        THEN decode_methods(stream, position + 4, count - 1, original_class,
                            insert_method(builder, original_data,
                                          revised_name))
        ELSE IF changed
        THEN decode_methods(stream, position + 4, count - 1, original_class,
                            builder)
        ELSE Decoded(builder, position + 4, "UnchangedMethod")

\* decode_fields without the test of lines 328-330: an entry that renames a
\* field to its own name is inserted like any other
RECURSIVE decode_fields_Lenient(_, _, _, _, _)
decode_fields_Lenient(stream, position, count, original_class, builder) ==
    IF count = 0 THEN Decoded(builder, position, "none")
    ELSE IF position + 1 > Len(stream)
    THEN Decoded(builder, Len(stream), "io")
    ELSE IF stream[position + 1] = <<>>
    THEN Decoded(builder, position + 1, "InvalidName")
    ELSE IF position + 2 > Len(stream)
    THEN Decoded(builder, Len(stream), "io")
    ELSE IF stream[position + 2] = <<>>
    THEN Decoded(builder, position + 2, "InvalidName")
    ELSE decode_fields_Lenient(stream, position + 2, count - 1,
                               original_class,
                               insert_field(builder,
                                            FieldData(original_class,
                                                      stream[position + 1]),
                                            stream[position + 2]))

\* lines 312-333: `count` fields of original_class
RECURSIVE decode_fields(_, _, _, _, _)
decode_fields(stream, position, count, original_class, builder) ==
    IF count = 0 THEN Decoded(builder, position, "none")
    ELSE IF position + 1 > Len(stream)
    THEN Decoded(builder, Len(stream), "io")
    ELSE IF stream[position + 1] = <<>>
    THEN Decoded(builder, position + 1, "InvalidName")
    ELSE IF position + 2 > Len(stream)
    THEN Decoded(builder, Len(stream), "io")
    ELSE IF stream[position + 2] = <<>>
    THEN Decoded(builder, position + 2, "InvalidName")
    ELSE IF stream[position + 1] = stream[position + 2]
    THEN Decoded(builder, position + 2, "UnchangedField")
    ELSE decode_fields(stream, position + 2, count - 1, original_class,
                       insert_field(builder,
                                    FieldData(original_class,
                                              stream[position + 1]),
                                    stream[position + 2]))

\* decode_class without the test of line 262: a class entry is inserted
\* whether or not it renames the class
decode_class_KeepsIdentity(stream, position, builder) ==
    IF position + 1 > Len(stream)
    THEN Decoded(builder, Len(stream), "io")
    ELSE IF parse_internal_name(stream[position + 1]) # "ok"
    THEN Decoded(builder, position + 1, "InvalidName")
    ELSE IF position + 2 > Len(stream)
    THEN Decoded(builder, Len(stream), "io")
    ELSE IF /\ stream[position + 2] # <<>>
            /\ parse_internal_name(stream[position + 2]) # "ok"
    THEN Decoded(builder, position + 2, "InvalidName")
    ELSE
    LET original_class == stream[position + 1]
        revised_class == IF stream[position + 2] = <<>> THEN original_class
                         ELSE stream[position + 2]
        with_class == insert_class(builder, original_class, revised_class)
    IN  IF position + 3 > Len(stream)
        THEN Decoded(with_class, Len(stream), "io")
        ELSE LET after_methods ==
                     decode_methods(stream, position + 3,
                                    stream[position + 3], original_class,
                                    with_class)
             IN  IF after_methods.error # "none" THEN after_methods
                 ELSE IF after_methods.position + 1 > Len(stream)
                 THEN Decoded(after_methods.builder, Len(stream), "io")
                 ELSE decode_fields(stream, after_methods.position + 1,
                                    stream[after_methods.position + 1],
                                    original_class, after_methods.builder)

\* lines 252-333: one iteration of `for _ in 0..num_classes`
decode_class(stream, position, builder) ==
    IF position + 1 > Len(stream)
    THEN Decoded(builder, Len(stream), "io")
    ELSE IF parse_internal_name(stream[position + 1]) # "ok"
    THEN Decoded(builder, position + 1, "InvalidName")
    ELSE IF position + 2 > Len(stream)
    THEN Decoded(builder, Len(stream), "io")
    ELSE IF /\ stream[position + 2] # <<>>
            /\ parse_internal_name(stream[position + 2]) # "ok"
    THEN Decoded(builder, position + 2, "InvalidName")
    ELSE
    LET original_class == stream[position + 1]
        revised_class == IF stream[position + 2] = <<>> THEN original_class
                         ELSE stream[position + 2]
        with_class == IF revised_class # original_class
                      THEN insert_class(builder, original_class,
                                        revised_class)
                      ELSE builder
    IN  IF position + 3 > Len(stream)
        THEN Decoded(with_class, Len(stream), "io")
        ELSE LET after_methods ==
                     decode_methods(stream, position + 3,
                                    stream[position + 3], original_class,
                                    with_class)
             IN  IF after_methods.error # "none" THEN after_methods
                 ELSE IF after_methods.position + 1 > Len(stream)
                 THEN Decoded(after_methods.builder, Len(stream), "io")
                 ELSE decode_fields(stream, after_methods.position + 1,
                                    stream[after_methods.position + 1],
                                    original_class, after_methods.builder)

(***************************************************************************)
(* Part III: the stores of the model and the operations on them            *)
(***************************************************************************)
\* most entries of the class, field and method tables
MaxClasses == 2

MaxFields == 2

MaxMethods == 1

\* how often reverse() is applied in a row
MaxReversals == 2

ClassPool == {<<"a">>, <<"b">>, <<"x">>}

FieldNamePool == {<<"f">>, <<"g">>}

MethodNamePool == {<<"m">>}

RenamedMethodNamePool == {<<"m">>, <<"n">>}

SignaturePool ==
    {<<"(", "L", "a", ";", ")", "L", "x", ";">>,
     <<"(", "[", "L", "b", ";", ")", "I">>}

\* the ordered maps of at most n entries with keys in K and values in V
RECURSIVE OrderMaps(_, _, _)
OrderMaps(K, V, n) ==
    IF n = 0 THEN {<<>>}
    ELSE LET shorter == OrderMaps(K, V, n - 1)
         IN  shorter \cup
             UNION {{Append(m, <<k, v>>) : k \in K \ keys(m), v \in V} :
                       m \in shorter}

FieldKeys == {FieldData(c, n) : c \in ClassPool, n \in FieldNamePool}

MethodKeys ==
    {MethodData(c, n, s) :
        c \in ClassPool, n \in MethodNamePool, s \in SignaturePool}

Stores ==
    {MappingsBuilder(c, f, m) :
        c \in OrderMaps(ClassPool, ClassPool, MaxClasses),
        f \in OrderMaps(FieldKeys, FieldNamePool, MaxFields),
        m \in OrderMaps(MethodKeys, RenamedMethodNamePool, MaxMethods)}

StoreIdle ==
    /\ st_original = NewBuilder
    /\ st_builder = NewBuilder
    /\ st_reversed = 0
    /\ st_stream = <<>>
    /\ st_position = 0
    /\ st_left = 0
    /\ st_status = "ready"

StoreInit ==
    /\ st_original \in Stores
    /\ st_builder = st_original
    /\ st_reversed = 0
    /\ st_stream = <<>>
    /\ st_position = 0
    /\ st_left = 0
    /\ st_status = "ready"

\* builder.reverse()
Reverse ==
    /\ st_status = "ready"
    /\ st_reversed < MaxReversals
    /\ st_builder' = reverse(st_builder)
    /\ st_reversed' = st_reversed + 1
    /\ UNCHANGED <<st_original, st_stream, st_position, st_left, st_status,
                   schedVars, applierVars, moreVars>>

\* CompressedMappingsEncoder::encode(&builder.snapshot()); the stream will
\* be decoded into a new builder
Encode ==
    /\ st_status = "ready"
    /\ st_stream' = encode(snapshot(st_builder))
    /\ st_builder' = NewBuilder
    /\ st_status' = "encoded"
    /\ UNCHANGED <<st_original, st_reversed, st_position, st_left,
                   schedVars, applierVars, moreVars>>

\* lines 248-250: read_u64 of num_classes
DecodeBegin ==
    /\ st_status = "encoded"
    /\ IF Len(st_stream) = 0
       THEN /\ st_status' = "io"
            /\ UNCHANGED <<st_left, st_position>>
       ELSE /\ st_left' = st_stream[1]
            /\ st_position' = 1
            /\ st_status' = "decoding"
    /\ UNCHANGED <<st_original, st_builder, st_reversed, st_stream,
                   schedVars, applierVars, moreVars>>

\* lines 251-334: one class, its methods and its fields
DecodeClass ==
    /\ st_status = "decoding"
    /\ st_left > 0
    /\ LET read == decode_class(st_stream, st_position, st_builder) IN
          /\ st_builder' = read.builder
          /\ st_position' = read.position
          /\ st_status' = IF read.error = "none" THEN "decoding"
                          ELSE read.error
    /\ st_left' = st_left - 1
    /\ UNCHANGED <<st_original, st_reversed, st_stream, schedVars,
                   applierVars, moreVars>>

\* lines 336-341: nothing may follow the last class
DecodeEnd ==
    /\ st_status = "decoding"
    /\ st_left = 0
    /\ st_status' = IF st_position < Len(st_stream)
                    THEN "UnexpectedTrailing" ELSE "ok"
    /\ st_position' = Len(st_stream)
    /\ UNCHANGED <<st_original, st_builder, st_reversed, st_stream, st_left,
                   schedVars, applierVars, moreVars>>

decode == DecodeBegin \/ DecodeClass \/ DecodeEnd

(***************************************************************************)
(* Part III: streams that no encoder wrote, given to the decoder           *)
(***************************************************************************)
\* most classes of such a stream, most methods and fields of a class
MaxStreamClasses == 2

MaxStreamMembers == 1

StreamSignature == <<"(", "L", "a", ";", ")", "V">>

StreamOtherSignature == <<"(", "L", "b", ";", ")", "V">>

\* the four strings of a method entry; "" (<<>>) stands for `unchanged`
StreamMethods ==
    {<<name, revised_name, StreamSignature, revised_signature>> :
        name \in {<<"m">>},
        revised_name \in {<<>>, <<"m">>, <<"n">>},
        revised_signature \in {<<>>, StreamSignature, StreamOtherSignature}}

\* the two strings of a field entry
StreamFields ==
    {<<name, revised_name>> :
        name \in {<<"f">>}, revised_name \in {<<>>, <<"f">>, <<"g">>}}

\* the sequences of at most n entries, written one after the other
RECURSIVE EntryLists(_, _)
EntryLists(E, n) ==
    IF n = 0 THEN {<<>>}
    ELSE LET shorter == EntryLists(E, n - 1)
         IN  shorter \cup {Append(l, e) : l \in shorter, e \in E}

\* a class of the stream: names, method count and entries, field count and
\* entries
StreamClasses ==
    {<<original, revised, Len(ms)>> \o Concat(ms) \o <<Len(fs)>> \o Concat(fs) :
        original \in {<<"a">>, <<"b">>},
        revised \in {<<>>, <<"a">>, <<"x">>},
        ms \in EntryLists(StreamMethods, MaxStreamMembers),
        fs \in EntryLists(StreamFields, MaxStreamMembers)}

Streams ==
    {<<Len(cs)>> \o Concat(cs) :
        cs \in EntryLists(StreamClasses, MaxStreamClasses)}

\* a stream handed to CompressedMappingsDecoder::decode with a new builder
StreamInit ==
    /\ st_original = NewBuilder
    /\ st_builder = NewBuilder
    /\ st_reversed = 0
    /\ st_stream \in Streams
    /\ st_position = 0
    /\ st_left = 0
    /\ st_status = "encoded"

(***************************************************************************)
(* Part IV: chain and the lookups of a snapshot (mappings/mod.rs)          *)
(*                                                                         *)
(* An Option is <<>> for None and <<value>> for Some(value).               *)
(***************************************************************************)
\* Mappings::try_get_class
try_get_class(mappings, original) ==
    IF contains_key(mappings.classes, original)
    THEN <<get(mappings.classes, original)>>
    ELSE <<>>

\* MappingsSnapshot::try_get_field
try_get_field(mappings, original) ==
    IF contains_key(mappings.fields, original)
    THEN <<get(mappings.fields, original)>>
    ELSE <<>>

\* MappingsSnapshot::try_get_method
try_get_method(mappings, original) ==
    IF contains_key(mappings.methods, original)
    THEN <<get(mappings.methods, original)>>
    ELSE <<>>

\* MappingsSnapshot::remap_signature reaches parse().unwrap() on a
\* descriptor that is not cached and does not parse
remap_signature_panics(mappings, original) ==
    /\ original \notin DOMAIN mappings.signature_cache
    /\ ~parse(original).ok

\* compute_remapped_signature handing the descriptor back as it is
compute_remapped_signature_Verbatim(mappings, original) == original

\* MappingsSnapshot::compute_remapped_signature, for a descriptor that parses
compute_remapped_signature(mappings, original) ==
    compute_signature(mappings, original)

\* MappingsSnapshot::remap_signature: the cached descriptor, else the
\* computed one
remap_signature(mappings, original) ==
    IF original \in DOMAIN mappings.signature_cache
    THEN mappings.signature_cache[original]
    ELSE compute_remapped_signature(mappings, original)

\* get_field returning the key as it is on a miss, its class not remapped
get_field_SameClass(mappings, original) ==
    LET renamed == try_get_field(mappings, original) IN
    IF renamed # <<>> THEN renamed[1] ELSE original

\* Mappings::get_field
get_field(mappings, original) ==
    LET renamed == try_get_field(mappings, original) IN
    IF renamed # <<>> THEN renamed[1]
    ELSE FieldData(get_class(mappings, original.class), original.name)

\* does Mappings::get_method panic
get_method_panics(mappings, original) ==
    /\ try_get_method(mappings, original) = <<>>
    /\ remap_signature_panics(mappings, original.signature)

\* get_method remapping the class of a missing key and not its descriptor
get_method_SameDescriptor(mappings, original) ==
    LET renamed == try_get_method(mappings, original) IN
    IF renamed # <<>> THEN renamed[1]
    ELSE MethodData(get_class(mappings, original.class), original.name,
                    original.signature)

\* Mappings::get_method, when it returns
get_method(mappings, original) ==
    LET renamed == try_get_method(mappings, original) IN
    IF renamed # <<>> THEN renamed[1]
    ELSE MethodData(get_class(mappings, original.class), original.name,
                    remap_signature(mappings, original.signature))

\* chain() looking the originals up in self instead of its reverse
chain_Unreversed(self, mappings) ==
    LET reversed == snapshot(self)
        Original(c) == get_class(reversed, c)
    IN  MappingsBuilder(
            insert_all(self.classes,
                [i \in DOMAIN mappings.classes |->
                    <<Original(mappings.classes[i][1]),
                      mappings.classes[i][2]>>]),
            insert_all(self.field_names,
                [i \in DOMAIN mappings.field_names |->
                    <<get_field(reversed, mappings.field_names[i][1]),
                      mappings.field_names[i][2]>>]),
            insert_all(self.method_names,
                [i \in DOMAIN mappings.method_names |->
                    <<get_method(reversed, mappings.method_names[i][1]),
                      mappings.method_names[i][2]>>]))

\* chain() that keeps only the entries whose original the reverse of self
\* knows
chain_DropsNew(self, mappings) ==
    LET reversed == snapshot(reverse(self))
        KnownClass(e) == contains_key(reversed.classes, e[1])
        KnownField(e) == contains_key(reversed.fields, e[1])
        KnownMethod(e) == contains_key(reversed.methods, e[1])
        kept_classes == SelectSeq(mappings.classes, KnownClass)
        kept_fields == SelectSeq(mappings.field_names, KnownField)
        kept_methods == SelectSeq(mappings.method_names, KnownMethod)
    IN  MappingsBuilder(
            insert_all(self.classes,
                [i \in DOMAIN kept_classes |->
                    <<get_class(reversed, kept_classes[i][1]),
                      kept_classes[i][2]>>]),
            insert_all(self.field_names,
                [i \in DOMAIN kept_fields |->
                    <<get_field(reversed, kept_fields[i][1]),
                      kept_fields[i][2]>>]),
            insert_all(self.method_names,
                [i \in DOMAIN kept_methods |->
                    <<get_method(reversed, kept_methods[i][1]),
                      kept_methods[i][2]>>]))

\* MappingsBuilder::chain: the originals of `mappings` are translated back
\* through a snapshot of the reversed clone of self, then inserted
chain(self, mappings) ==
    LET reversed == snapshot(reverse(self))
        Original(c) ==
            LET found == try_get_class(reversed, c) IN
            IF found # <<>> THEN found[1] ELSE c
    IN  MappingsBuilder(
            insert_all(self.classes,
                [i \in DOMAIN mappings.classes |->
                    <<Original(mappings.classes[i][1]),
                      mappings.classes[i][2]>>]),
            insert_all(self.field_names,
                [i \in DOMAIN mappings.field_names |->
                    <<get_field(reversed, mappings.field_names[i][1]),
                      mappings.field_names[i][2]>>]),
            insert_all(self.method_names,
                [i \in DOMAIN mappings.method_names |->
                    <<get_method(reversed, mappings.method_names[i][1]),
                      mappings.method_names[i][2]>>]))

(***************************************************************************)
(* Part IV: the stores chained and looked up                               *)
(***************************************************************************)
\* most entries of the class table of self, of the class table of the
\* chained mappings, and of each member table
MaxSelfClasses == 2

MaxChainedClasses == 1

MaxChainedMembers == 1

SelfClassKeys == {<<"a">>, <<"b">>}

SelfClassValues == {<<"b">>, <<"x">>}

ChainedClassValues == {<<"a">>, <<"x">>}

\* a descriptor MethodSignature::parse rejects (the class is not closed)
MalformedSignature == <<"(", "L", "a", ")", "V">>

\* member tables with a field or with a method, not both
MemberTables ==
    {[field_names |-> f, method_names |-> <<>>] :
        f \in OrderMaps(FieldKeys, FieldNamePool, MaxChainedMembers)}
    \cup
    {[field_names |-> <<>>, method_names |-> m] :
        m \in OrderMaps(MethodKeys, RenamedMethodNamePool,
                        MaxChainedMembers)}

ChainSelves ==
    {MappingsBuilder(c, t.field_names, t.method_names) :
        c \in OrderMaps(SelfClassKeys, SelfClassValues, MaxSelfClasses),
        t \in MemberTables}

\* the chained mappings are keyed by what self renames to: the renamed
\* method names and the descriptors with the classes of self substituted
ChainedSignaturePool ==
    SignaturePool \cup
    {<<"(", "L", "b", ";", ")", "L", "x", ";">>,
     <<"(", "[", "L", "x", ";", ")", "I">>}

ChainedMethodKeys ==
    {MethodData(c, n, s) :
        c \in ClassPool, n \in RenamedMethodNamePool,
        s \in ChainedSignaturePool}

ChainedMemberTables ==
    {[field_names |-> f, method_names |-> <<>>] :
        f \in OrderMaps(FieldKeys, FieldNamePool, MaxChainedMembers)}
    \cup
    {[field_names |-> <<>>, method_names |-> m] :
        m \in OrderMaps(ChainedMethodKeys, RenamedMethodNamePool,
                        MaxChainedMembers)}

ChainOthers ==
    {MappingsBuilder(c, t.field_names, t.method_names) :
        c \in OrderMaps(ClassPool, ChainedClassValues, MaxChainedClasses),
        t \in ChainedMemberTables}

\* the stores looked up: up to two classes, a field and a method
LookupStores ==
    {MappingsBuilder(c, f, m) :
        c \in OrderMaps(ClassPool, ClassPool, MaxSelfClasses),
        f \in OrderMaps(FieldKeys, FieldNamePool, MaxChainedMembers),
        m \in OrderMaps(MethodKeys, RenamedMethodNamePool,
                        MaxChainedMembers)}

\* the keys looked up: every key of the pools and a method whose
\* descriptor does not parse
Queries ==
    {[kind |-> "class", key |-> c] : c \in ClassPool}
    \cup {[kind |-> "field", key |-> k] : k \in FieldKeys}
    \cup {[kind |-> "method", key |-> k] :
             k \in MethodKeys \cup
                   {MethodData(c, n, MalformedSignature) :
                       c \in ClassPool, n \in MethodNamePool}}

NoQuery == [kind |-> "none", key |-> <<>>]

NoAnswer == [panicked |-> FALSE, found |-> FALSE, value |-> <<>>]

ChainIdle ==
    /\ ch_self = NewBuilder
    /\ ch_other = NewBuilder
    /\ ch_builder = NewBuilder
    /\ ch_status = "ready"
    /\ ch_query = NoQuery
    /\ ch_answer = NoAnswer

ChainInit ==
    /\ ch_self \in ChainSelves
    /\ ch_other \in ChainOthers
    /\ ch_builder = ch_self
    /\ ch_status = "ready"
    /\ ch_query = NoQuery
    /\ ch_answer = NoAnswer

LookupInit ==
    /\ ch_self \in LookupStores
    /\ ch_other = NewBuilder
    /\ ch_builder = ch_self
    /\ ch_status = "ready"
    /\ ch_query = NoQuery
    /\ ch_answer = NoAnswer

\* builder.chain(&other)
Chain ==
    /\ ch_status = "ready"
    /\ ch_builder' = chain(ch_builder, ch_other)
    /\ ch_status' = "chained"
    /\ UNCHANGED <<ch_self, ch_other, ch_query, ch_answer, schedVars,
                   applierVars, storeVars, targetVars, srgVars,
                   lateVars>>

\* builder.snapshot().get_class(&class)
GetClass ==
    /\ ch_query = NoQuery
    /\ \E c \in ClassPool :
          /\ ch_query' = [kind |-> "class", key |-> c]
          /\ ch_answer' =
                [panicked |-> FALSE,
                 found |-> try_get_class(snapshot(ch_builder), c) # <<>>,
                 value |-> <<get_class(snapshot(ch_builder), c)>>]
    /\ UNCHANGED <<ch_self, ch_other, ch_builder, ch_status, schedVars,
                   applierVars, storeVars, targetVars, srgVars,
                   lateVars>>

\* builder.snapshot().get_field(&field)
GetField ==
    /\ ch_query = NoQuery
    /\ \E q \in Queries :
          /\ q.kind = "field"
          /\ ch_query' = q
          /\ ch_answer' =
                [panicked |-> FALSE,
                 found |-> try_get_field(snapshot(ch_builder), q.key) # <<>>,
                 value |-> <<get_field(snapshot(ch_builder), q.key)>>]
    /\ UNCHANGED <<ch_self, ch_other, ch_builder, ch_status, schedVars,
                   applierVars, storeVars, targetVars, srgVars,
                   lateVars>>

\* builder.snapshot().get_method(&method)
GetMethod ==
    /\ ch_query = NoQuery
    /\ \E q \in Queries :
          /\ q.kind = "method"
          /\ ch_query' = q
          /\ LET mappings == snapshot(ch_builder) IN
             ch_answer' =
                IF get_method_panics(mappings, q.key)
                THEN [panicked |-> TRUE, found |-> FALSE, value |-> <<>>]
                ELSE [panicked |-> FALSE,
                      found |-> try_get_method(mappings, q.key) # <<>>,
                      value |-> <<get_method(mappings, q.key)>>]
    /\ UNCHANGED <<ch_self, ch_other, ch_builder, ch_status, schedVars,
                   applierVars, storeVars, targetVars, srgVars,
                   lateVars>>

lookup == GetClass \/ GetField \/ GetMethod

(***************************************************************************)
(* Part V: MappingsTarget::from_str (minecraft/targets.rs)                 *)
(*                                                                         *)
(* A string is the sequence of its characters.                             *)
(***************************************************************************)
\* the characters of the model that the class \w of the regex matches
WordChars ==
    {"a", "b", "c", "d", "e", "f", "g", "i", "l", "m", "n", "o", "p", "r",
     "s", "t", "y", "x", "2"}

\* the last index of the run of word characters that starts at i
RECURSIVE WordRunEnd(_, _)
WordRunEnd(s, i) ==
    IF i < Len(s) /\ s[i + 1] \in WordChars THEN WordRunEnd(s, i + 1) ELSE i

starts_with(s, prefix) ==
    /\ Len(prefix) <= Len(s)
    /\ SubSeq(s, 1, Len(prefix)) = prefix

ModifierWords ==
    [classes |-> <<"c", "l", "a", "s", "s", "e", "s">>,
     members |-> <<"m", "e", "m", "b", "e", "r", "s">>,
     onlyobf |-> <<"o", "n", "l", "y", "o", "b", "f">>]

FormatWords ==
    [srg |-> <<"s", "r", "g">>,
     mcp |-> <<"m", "c", "p">>,
     spigot |-> <<"s", "p", "i", "g", "o", "t">>,
     obf |-> <<"o", "b", "f">>]

\* the positions of a "2" at which (\w+)2(\w+) can split the word run
\* that starts at i
Splits(s, i) ==
    {j \in (i + 1)..(WordRunEnd(s, i) - 1) : s[j] = "2"}

Max(S) == CHOOSE x \in S : \A y \in S : y <= x

Min(S) == CHOOSE x \in S : \A y \in S : x <= y

\* TARGET_PATTERN.captures(value): (\w+)2(\w+)(?:-(classes|members|onlyobf))?
\* is searched anywhere in the value; the leftmost match is taken, both
\* \w+ are greedy and the optional group is taken when it matches
captures(value) ==
    LET starts == {i \in DOMAIN value :
                      value[i] \in WordChars /\ Splits(value, i) # {}}
    IN  IF starts = {} THEN <<>>
        ELSE LET i == Min(starts)
                 end == WordRunEnd(value, i)
                 two == Max(Splits(value, i))
                 rest == SubSeq(value, end + 1, Len(value))
                 modifiers ==
                     {m \in DOMAIN ModifierWords :
                         starts_with(rest, <<"-">> \o ModifierWords[m])}
             IN  <<[first |-> SubSeq(value, i, two - 1),
                    second |-> SubSeq(value, two + 1, end),
                    third |-> IF modifiers = {} THEN NoModifier
                              ELSE CHOOSE m \in modifiers : TRUE]>>

\* MappingsFormat::from_str: <<format>>, <<>> for Err(InvalidTarget)
format_from_str(value) ==
    LET formats == {f \in DOMAIN FormatWords : FormatWords[f] = value}
    IN  IF formats = {} THEN <<>> ELSE <<CHOOSE f \in formats : TRUE>>

InvalidTarget == [ok |-> FALSE, target |-> NoTarget]

\* MappingsTarget::from_str
from_str(value) ==
    LET found == captures(value) IN
    IF found = <<>> THEN InvalidTarget
    ELSE LET original == format_from_str(found[1].first)
             renamed == format_from_str(found[1].second)
         IN  IF original = <<>> \/ renamed = <<>> THEN InvalidTarget
             ELSE IF original = renamed THEN InvalidTarget
             ELSE [ok |-> TRUE,
                   target |-> WithModifier(
                       MappingsTarget(original[1], renamed[1]),
                       found[1].third)]

\* the strings parsed: a prefix, two words around a "2", a suffix
TargetPrefixes == {<<>>, <<"-">>, <<"x">>, <<"m", "c", "p", "2">>}

TargetWords ==
    {FormatWords[f] : f \in DOMAIN FormatWords} \cup {<<"o", "b">>}

TargetSuffixes ==
    {<<>>, <<"-">>, <<"x">>, <<" ", "x">>, <<"-", "x">>}
    \cup {<<"-">> \o ModifierWords[m] : m \in DOMAIN ModifierWords}
    \cup {<<"-">> \o ModifierWords.onlyobf \o <<"x">>}

TargetStrings ==
    {p \o a \o <<"2">> \o b \o s :
        p \in TargetPrefixes, a \in TargetWords, b \in TargetWords,
        s \in TargetSuffixes}

NotParsed == [ok |-> FALSE, target |-> NoTarget, done |-> FALSE]

TargetIdle ==
    /\ ts_value = <<>>
    /\ ts_result = NotParsed

TargetInit ==
    /\ ts_value \in TargetStrings
    /\ ts_result = NotParsed

\* value.parse::<MappingsTarget>()
FromStr ==
    /\ ~ts_result.done
    /\ ts_result' = [ok |-> from_str(ts_value).ok,
                     target |-> from_str(ts_value).target,
                     done |-> TRUE]
    /\ UNCHANGED <<ts_value, schedVars, applierVars, storeVars, chainVars,
                   srgVars, lateVars>>

(***************************************************************************)
(* Part VI: the SRG text format                                            *)
(* (mappings/parser/srg.rs, mappings/parser/mod.rs, mappings/encoder/srg.rs)*)
(*                                                                         *)
(* A line is the sequence of its characters, without the line feed; a text *)
(* is the sequence of its lines.                                           *)
(***************************************************************************)
Whitespace == {" ", "\t"}

\* str::split_whitespace: the maximal runs of characters that are not
\* white space
RECURSIVE split_whitespace(_)
split_whitespace(s) ==
    IF s = <<>> THEN <<>>
    ELSE IF Head(s) \in Whitespace THEN split_whitespace(Tail(s))
    ELSE LET blanks == {i \in DOMAIN s : s[i] \in Whitespace}
             end == IF blanks = {} THEN Len(s) + 1 ELSE Min(blanks)
         IN  <<SubSeq(s, 1, end - 1)>>
             \o split_whitespace(SubSeq(s, end, Len(s)))

\* str::rfind(char): the last index of the character, 0 when absent
rfind(s, c) ==
    LET found == {i \in DOMAIN s : s[i] = c}
    IN  IF found = {} THEN 0 ELSE Max(found)

\* types.rs parse_internal_name: class and member name of "class/member"
parse_member_name(name) ==
    LET seperator == rfind(name, "/") IN
    IF seperator # 0
    THEN LET class == SubSeq(name, 1, seperator - 1)
             member_name == SubSeq(name, seperator + 1, Len(name))
         IN  IF parse_internal_name(class) # "ok"
             THEN [error |-> parse_internal_name(class),
                   class |-> <<>>, name |-> <<>>]
             ELSE IF member_name = <<>>
             THEN [error |-> "EmptyMemberName", class |-> <<>>,
                   name |-> <<>>]
             ELSE [error |-> "ok", class |-> class, name |-> member_name]
    ELSE IF name = <<>>
    THEN [error |-> "EmptyName", class |-> <<>>, name |-> <<>>]
    ELSE [error |-> "MissingSeperator", class |-> <<>>, name |-> <<>>]

Parsed_line(builder, error) == [builder |-> builder, error |-> error]

\* the "MD:" arm of parse_line
parse_method_line(builder, words) ==
    IF Len(words) # 4
    THEN Parsed_line(builder, "UnexpectedNumWords")
    ELSE LET original_data == parse_member_name(words[1])
             revised_data == parse_member_name(words[3])
         IN  IF ~parse(words[2]).ok \/ ~parse(words[4]).ok
             THEN Parsed_line(builder, "InvalidMethodDescriptor")
             ELSE IF original_data.error # "ok" \/ revised_data.error # "ok"
             THEN Parsed_line(builder, "InvalidName")
             ELSE Parsed_line(
                      insert_method(builder,
                          MethodData(original_data.class,
                                     original_data.name, words[2]),
                          revised_data.name),
                      "none")

\* the "FD:" arm of parse_line
parse_field_line(builder, words) ==
    IF Len(words) # 2
    THEN Parsed_line(builder, "UnexpectedNumWords")
    ELSE LET original_data == parse_member_name(words[1])
             revised_data == parse_member_name(words[2])
         IN  IF original_data.error # "ok" \/ revised_data.error # "ok"
             THEN Parsed_line(builder, "InvalidName")
             ELSE Parsed_line(
                      insert_field(builder,
                          FieldData(original_data.class, original_data.name),
                          revised_data.name),
                      "none")

\* the "CL:" arm of parse_line
parse_class_line(builder, words) ==
    IF Len(words) # 2
    THEN Parsed_line(builder, "UnexpectedNumWords")
    ELSE IF parse_internal_name(words[1]) # "ok"
            \/ parse_internal_name(words[2]) # "ok"
    THEN Parsed_line(builder, "InvalidName")
    ELSE Parsed_line(insert_class(builder, words[1], words[2]), "none")

\* SrgMappingsParser::parse_line, ignore_package_mappings being true
parse_line(builder, line) ==
    LET mapping_type == IF Len(line) >= 3 THEN SubSeq(line, 1, 3) ELSE <<>>
        words == split_whitespace(SubSeq(line, 4, Len(line)))
        all_words == split_whitespace(line)
    IN  IF mapping_type = <<"M", "D", ":">>
        THEN parse_method_line(builder, words)
        ELSE IF mapping_type = <<"F", "D", ":">>
        THEN parse_field_line(builder, words)
        ELSE IF mapping_type = <<"C", "L", ":">>
        THEN parse_class_line(builder, words)
        ELSE IF mapping_type = <<"P", "K", ":">>
        THEN Parsed_line(builder, "none")
        ELSE IF all_words # <<>> /\ all_words[1][1] # "#"
        THEN Parsed_line(builder, "UnexpectedMappingType")
        ELSE Parsed_line(builder, "none")

\* SrgEncoder::write: the line of a class, of a field, of a method
class_line(original, renamed) ==
    <<"C", "L", ":", " ">> \o original \o <<" ">> \o renamed

field_line(original, renamed) ==
    <<"F", "D", ":", " ">> \o original.class \o <<"/">> \o original.name
    \o <<" ">> \o renamed.class \o <<"/">> \o renamed.name

method_line(original, renamed) ==
    <<"M", "D", ":", " ">> \o original.class \o <<"/">> \o original.name
    \o <<" ">> \o original.signature \o <<" ">>
    \o renamed.class \o <<"/">> \o renamed.name \o <<" ">>
    \o renamed.signature

\* an encoder that writes the fields before the classes
write_FieldsFirst(mappings) ==
    [i \in DOMAIN mappings.fields |->
        field_line(mappings.fields[i][1], mappings.fields[i][2])]
    \o [i \in DOMAIN mappings.classes |->
        class_line(mappings.classes[i][1], mappings.classes[i][2])]
    \o [i \in DOMAIN mappings.methods |->
        method_line(mappings.methods[i][1], mappings.methods[i][2])]

\* SrgEncoder::write
write(mappings) ==
    [i \in DOMAIN mappings.classes |->
        class_line(mappings.classes[i][1], mappings.classes[i][2])]
    \o [i \in DOMAIN mappings.fields |->
        field_line(mappings.fields[i][1], mappings.fields[i][2])]
    \o [i \in DOMAIN mappings.methods |->
        method_line(mappings.methods[i][1], mappings.methods[i][2])]

\* most lines of a text
MaxSrgLines == 3

SrgSignature == <<"(", "L", "a", ";", ")", "V">>

SrgRemappedSignature == <<"(", "L", "b", ";", ")", "V">>

\* well-formed lines: classes, fields and methods, some of them at odds
\* with the class lines
SrgPlainLines ==
    {class_line(<<"a">>, <<"b">>), class_line(<<"b">>, <<"x">>),
     class_line(<<"x">>, <<"x">>),
     field_line(FieldData(<<"a">>, <<"f">>), FieldData(<<"b">>, <<"g">>)),
     field_line(FieldData(<<"a">>, <<"f">>), FieldData(<<"a">>, <<"g">>)),
     field_line(FieldData(<<"a">>, <<"f">>), FieldData(<<"a">>, <<"f">>)),
     method_line(MethodData(<<"a">>, <<"m">>, SrgSignature),
                 MethodData(<<"b">>, <<"n">>, SrgRemappedSignature)),
     method_line(MethodData(<<"a">>, <<"m">>, SrgSignature),
                 MethodData(<<"a">>, <<"n">>, SrgSignature))}

\* lines the encoder never writes, lines the parser rejects, and a method
\* line whose descriptors refer to a class of empty name
SrgOtherLines ==
    {<<>>,
     <<"#", " ", "c">>,
     <<"P", "K", ":", " ", "p", " ", "q">>,
     <<"C", "L", ":", " ", " ", "a", " ", "b">>,
     <<"C", "L", ":", " ", "a">>,
     <<"X", "X", ":", " ", "q">>,
     <<"F", "D", ":", " ", "a", "/", "f", " ", "/", "g">>,
     <<"M", "D", ":", " ", "a", "/", "m", " ", "(", "L", "a", ")", "V", " ",
       "b", "/", "n", " ", "(", "L", "b", ";", ")", "V">>,
     <<"M", "D", ":", " ", "a", "/", "m", " ", "(", "L", ";", ")", "V", " ",
       "b", "/", "n", " ", "(", "L", ";", ")", "V">>}

SrgLines == SrgPlainLines \cup SrgOtherLines

RECURSIVE Texts(_, _)
Texts(L, n) ==
    IF n = 0 THEN {<<>>}
    ELSE LET shorter == Texts(L, n - 1)
         IN  shorter \cup {Append(t, l) : t \in shorter, l \in L}

SrgIdle ==
    /\ sg_lines = <<>>
    /\ sg_rest = <<>>
    /\ sg_before = NewBuilder
    /\ sg_builder = NewBuilder
    /\ sg_status = "parsing"
    /\ sg_output = <<>>

\* SrgMappingsParser::default() and the text given to parse_text
SrgInit ==
    /\ sg_lines \in Texts(SrgLines, MaxSrgLines)
    /\ sg_rest = sg_lines
    /\ sg_before = NewBuilder
    /\ sg_builder = NewBuilder
    /\ sg_status = "parsing"
    /\ sg_output = <<>>

\* parse_text: self.parse_line(line)? for the next line
ParseLine ==
    /\ sg_status = "parsing"
    /\ sg_rest # <<>>
    /\ LET read == parse_line(sg_builder, Head(sg_rest)) IN
          /\ sg_before' = sg_builder
          /\ sg_builder' = read.builder
          /\ sg_status' = IF read.error = "none" THEN "parsing"
                          ELSE read.error
    /\ sg_rest' = Tail(sg_rest)
    /\ UNCHANGED <<sg_lines, sg_output, schedVars, applierVars, storeVars,
                   chainVars, targetVars, lateVars>>

\* parser.finish(), then SrgEncoder::new(&builder.snapshot()).write(out)
Write ==
    /\ sg_status = "parsing"
    /\ sg_rest = <<>>
    /\ sg_output' = write(snapshot(sg_builder))
    /\ sg_status' = "written"
    /\ UNCHANGED <<sg_lines, sg_rest, sg_before, sg_builder, schedVars,
                   applierVars, storeVars, chainVars, targetVars, lateVars>>

(***************************************************************************)
(* Part VII: MappingsBuilder::transform (mappings/mod.rs)                  *)
(*                                                                         *)
(* A MappingsTransformer is any implementation of the three hooks: each    *)
(* call of a hook answers None or Some(name), whatever it was given.       *)
(***************************************************************************)
\* most entries of each table of a store that is transformed
MaxTransformed == 2

\* what a hook answers: None or Some(changed)
HookAnswers == {<<>>, <<<<"t">>>>}

\* one call of a hook and the data it was given
HookCall(hook, class, name, signature) ==
    [hook |-> hook, class |-> class, name |-> name, signature |-> signature]

\* the field data handed to transform_field with the class of the key as it
\* is, not renamed
revised_field_data_OriginalClass(builder, entry) ==
    FieldData(entry[1].class, entry[2])

\* lines 94-102: the PooledFieldData handed to transform_field
revised_field_data(builder, entry) ==
    FieldData(get_class(builder, entry[1].class), entry[2])

\* lines 109-121: the PooledMethodData handed to transform_method
revised_method_data(builder, signatures, entry) ==
    MethodData(get_class(builder, entry[1].class), entry[2],
               signatures[entry[1].signature])

\* `*revised_name = changed_name`: entry i of the map takes the value
set_value(map, i, changed) ==
    IF changed = <<>> THEN map
    ELSE [map EXCEPT ![i] = <<map[i][1], changed[1]>>]

\* lines 93-107: one iteration of the loop over field_names; after the last
\* one, compute_signatures (parse().expect("Invalid descriptor"))
TransformField ==
    /\ tf_stage = "fields"
    /\ IF tf_index < Len(tf_builder.field_names)
       THEN LET entry == tf_builder.field_names[tf_index + 1]
                revised_data == revised_field_data(tf_builder, entry)
            IN  /\ tf_calls' = Append(tf_calls,
                       HookCall("transform_field", revised_data.class,
                                revised_data.name, <<>>))
                /\ \E changed_name \in HookAnswers :
                      tf_builder' = [tf_builder EXCEPT !.field_names =
                          set_value(@, tf_index + 1, changed_name)]
                /\ tf_index' = tf_index + 1
                /\ UNCHANGED <<tf_stage, tf_signatures>>
       ELSE /\ IF \A k \in keys(tf_builder.method_names) :
                     parse(k.signature).ok
               THEN /\ tf_stage' = "methods"
                    /\ tf_signatures' = compute_signatures(tf_builder)
               ELSE /\ tf_stage' = "panic_invalid_descriptor"
                    /\ UNCHANGED tf_signatures
            /\ tf_index' = 0
            /\ UNCHANGED <<tf_builder, tf_calls>>
    /\ UNCHANGED <<tf_original, schedVars, applierVars, storeVars, chainVars,
                   targetVars, srgVars, cacheVars>>

\* lines 108-125: one iteration of the loop over method_names
TransformMethod ==
    /\ tf_stage = "methods"
    /\ IF tf_index < Len(tf_builder.method_names)
       THEN LET entry == tf_builder.method_names[tf_index + 1]
                revised_data ==
                    revised_method_data(tf_builder, tf_signatures, entry)
            IN  /\ tf_calls' = Append(tf_calls,
                       HookCall("transform_method", revised_data.class,
                                revised_data.name, revised_data.signature))
                /\ \E changed_name \in HookAnswers :
                      tf_builder' = [tf_builder EXCEPT !.method_names =
                          set_value(@, tf_index + 1, changed_name)]
                /\ tf_index' = tf_index + 1
                /\ UNCHANGED tf_stage
       ELSE /\ tf_stage' = "classes"
            /\ tf_index' = 0
            /\ UNCHANGED <<tf_builder, tf_calls>>
    /\ UNCHANGED <<tf_original, tf_signatures, schedVars, applierVars,
                   storeVars, chainVars, targetVars, srgVars, cacheVars>>

\* lines 127-131: one iteration of the loop over classes.values_mut()
TransformClass ==
    /\ tf_stage = "classes"
    /\ IF tf_index < Len(tf_builder.classes)
       THEN LET revised_class == tf_builder.classes[tf_index + 1][2]
            IN  /\ tf_calls' = Append(tf_calls,
                       HookCall("transform_class", revised_class, <<>>,
                                <<>>))
                /\ \E changed_class \in HookAnswers :
                      tf_builder' = [tf_builder EXCEPT !.classes =
                          set_value(@, tf_index + 1, changed_class)]
                /\ tf_index' = tf_index + 1
                /\ UNCHANGED tf_stage
       ELSE /\ tf_stage' = "done"
            /\ tf_index' = 0
            /\ UNCHANGED <<tf_builder, tf_calls>>
    /\ UNCHANGED <<tf_original, tf_signatures, schedVars, applierVars,
                   storeVars, chainVars, targetVars, srgVars, cacheVars>>

\* builder.transform(&transformer)
transform == TransformField \/ TransformMethod \/ TransformClass

\* the classes, fields and methods of the stores that are transformed; the
\* last method has a descriptor that does not parse
TransformedClasses == {<<<<"a">>, <<"b">>>>, <<<<"b">>, <<"x">>>>}

TransformedFields ==
    {<<FieldData(<<"a">>, <<"f">>), <<"g">>>>,
     <<FieldData(<<"x">>, <<"f">>), <<"h">>>>}

TransformedMethods ==
    {<<MethodData(<<"a">>, <<"m">>, <<"(", "L", "a", ";", ")", "V">>),
       <<"n">>>>,
     <<MethodData(<<"b">>, <<"m">>, <<"(", "L", "b", ";", ")", "V">>),
       <<"n">>>>,
     <<MethodData(<<"a">>, <<"m">>, <<"(", "L", "a", ")", "V">>), <<"n">>>>}

TransformedStores ==
    {MappingsBuilder(c, f, m) :
        c \in DistinctSeqs(TransformedClasses, MaxTransformed),
        f \in DistinctSeqs(TransformedFields, MaxTransformed),
        m \in DistinctSeqs(TransformedMethods, MaxTransformed)}

TransformIdle ==
    /\ tf_original = NewBuilder
    /\ tf_builder = NewBuilder
    /\ tf_signatures = EmptyMap
    /\ tf_stage = "fields"
    /\ tf_index = 0
    /\ tf_calls = <<>>

TransformInit ==
    /\ tf_original \in TransformedStores
    /\ tf_builder = tf_original
    /\ tf_signatures = EmptyMap
    /\ tf_stage = "fields"
    /\ tf_index = 0
    /\ tf_calls = <<>>

(***************************************************************************)
(* Part VIII: the descriptor cache of a snapshot under concurrent callers  *)
(* (mappings/mod.rs, MappingsSnapshot::remap_signature)                    *)
(*                                                                         *)
(* signature_cache is a RwLock: a reader takes it when nobody writes, and  *)
(* looks the descriptor up in one step; the writer holds it from           *)
(* `signature_cache.write()` to the end of compute_remapped_signature.     *)
(***************************************************************************)
\* threads that share the snapshot
NumThreads == 2

Threads == 1..NumThreads

\* most calls one thread makes
MaxCalls == 2

\* the calls made: get_method(original) and
\* remap_signature(original.signature)
CacheCall(get_method_call, original) ==
    [get_method |-> get_method_call, original |-> original]

NoCall == CacheCall(FALSE, MethodData(<<>>, <<>>, <<>>))

\* the snapshots shared: of stores with or without a method
CachedStores ==
    {MappingsBuilder(c, <<>>, m) :
        c \in DistinctSeqs(TransformedClasses, MaxTransformed),
        m \in DistinctSeqs(
                  {<<MethodData(<<"a">>, <<"m">>,
                                <<"(", "L", "a", ";", ")", "V">>),
                     <<"n">>>>}, 1)}

\* the methods asked for: the one a store can hold, others of a cached and
\* of an uncached descriptor, and one whose descriptor does not parse
CachedKeys ==
    {MethodData(<<"a">>, <<"m">>, <<"(", "L", "a", ";", ")", "V">>),
     MethodData(<<"a">>, <<"q">>, <<"(", "L", "a", ";", ")", "V">>),
     MethodData(<<"a">>, <<"q">>, <<"(", "L", "b", ";", ")", "V">>),
     MethodData(<<"a">>, <<"q">>, <<"(", "L", "a", ")", "V">>)}

CacheCalls == {CacheCall(g, k) : g \in BOOLEAN, k \in CachedKeys}

\* a call returns: the descriptor is recorded with the one asked for
Return(t, original, descriptor) ==
    /\ sc_result' = [sc_result EXCEPT ![t] = <<descriptor>>]
    /\ sc_returned' = sc_returned \cup {<<original, descriptor>>}
    /\ sc_pc' = [sc_pc EXCEPT ![t] = "idle"]

\* get_method, lines 380-383, or the first line of remap_signature: a
\* method the snapshot holds is returned as stored, the cache is not read
CacheBegin(t) ==
    /\ sc_pc[t] = "idle"
    /\ sc_count[t] < MaxCalls
    /\ sc_count' = [sc_count EXCEPT ![t] = @ + 1]
    /\ \E call \in CacheCalls :
          /\ sc_call' = [sc_call EXCEPT ![t] = call]
          /\ LET renamed == try_get_method(sc_mappings, call.original) IN
             IF call.get_method /\ renamed # <<>>
             THEN Return(t, call.original.signature, renamed[1].signature)
             ELSE /\ sc_pc' = [sc_pc EXCEPT ![t] = "read"]
                  /\ UNCHANGED <<sc_result, sc_returned>>
    /\ UNCHANGED <<sc_mappings, sc_writer, schedVars, applierVars,
                   storeVars, chainVars, targetVars, srgVars, transformVars>>

\* lines 504-509: signature_cache.read(), lock.get(original)
CacheRead(t) ==
    /\ sc_pc[t] = "read"
    /\ sc_writer = {}
    /\ LET original == sc_call[t].original.signature IN
       IF original \in DOMAIN sc_mappings.signature_cache
       THEN Return(t, original, sc_mappings.signature_cache[original])
       ELSE /\ sc_pc' = [sc_pc EXCEPT ![t] = "write"]
            /\ UNCHANGED <<sc_result, sc_returned>>
    /\ UNCHANGED <<sc_mappings, sc_writer, sc_call, sc_count, schedVars,
                   applierVars, storeVars, chainVars, targetVars, srgVars,
                   transformVars>>

\* line 594: signature_cache.write()
CacheWrite(t) ==
    /\ sc_pc[t] = "write"
    /\ sc_writer = {}
    /\ sc_writer' = {t}
    /\ sc_pc' = [sc_pc EXCEPT ![t] = "entry"]
    /\ UNCHANGED <<sc_mappings, sc_call, sc_result, sc_returned, sc_count,
                   schedVars, applierVars, storeVars, chainVars, targetVars,
                   srgVars, transformVars>>

\* lines 596-613: lock.entry(original).or_insert_with(..).clone(); the
\* guard is dropped on return and by the unwinding of parse().unwrap()
CacheEntry(t) ==
    /\ sc_pc[t] = "entry"
    /\ sc_writer' = {}
    /\ LET original == sc_call[t].original.signature IN
       IF original \in DOMAIN sc_mappings.signature_cache
       THEN /\ Return(t, original, sc_mappings.signature_cache[original])
            /\ UNCHANGED sc_mappings
       ELSE IF ~parse(original).ok
       THEN /\ sc_pc' = [sc_pc EXCEPT ![t] = "panic_unwrap"]
            /\ UNCHANGED <<sc_mappings, sc_result, sc_returned>>
       ELSE /\ sc_mappings' = [sc_mappings EXCEPT !.signature_cache =
                  MapPut(@, original,
                         compute_remapped_signature(sc_mappings, original))]
            /\ Return(t, original,
                      compute_remapped_signature(sc_mappings, original))
    /\ UNCHANGED <<sc_call, sc_count, schedVars, applierVars, storeVars,
                   chainVars, targetVars, srgVars, transformVars>>

cached_calls == \E t \in Threads :
    CacheBegin(t) \/ CacheRead(t) \/ CacheWrite(t) \/ CacheEntry(t)

CacheIdle ==
    /\ sc_mappings = snapshot(NewBuilder)
    /\ sc_writer = {}
    /\ sc_pc = [t \in Threads |-> "idle"]
    /\ sc_call = [t \in Threads |-> NoCall]
    /\ sc_result = [t \in Threads |-> <<>>]
    /\ sc_returned = {}
    /\ sc_count = [t \in Threads |-> 0]

CacheInit ==
    /\ sc_mappings \in {snapshot(b) : b \in CachedStores}
    /\ sc_writer = {}
    /\ sc_pc = [t \in Threads |-> "idle"]
    /\ sc_call = [t \in Threads |-> NoCall]
    /\ sc_result = [t \in Threads |-> <<>>]
    /\ sc_returned = {}
    /\ sc_count = [t \in Threads |-> 0]

(***************************************************************************)
(* Specifications                                                          *)
(***************************************************************************)
SchedIdle ==
    /\ debug_build = FALSE
    /\ build(<<>>)
    /\ workers_mutex = NoWorker
    /\ waiters_lock = NoWorker
    /\ results_lock = <<>>
    /\ pc = [w \in Workers |-> "start"]
    /\ target = [w \in Workers |-> NoTarget]
    /\ pending = [w \in Workers |-> <<>>]
    /\ outcome = [w \in Workers |-> NoOutcome]
    /\ produced = [t \in AllTargets |-> 0]
    /\ ever_queued = {}

\* the parts added to the first three, at rest
LateIdle == TransformIdle /\ CacheIdle

MoreIdle == ChainIdle /\ TargetIdle /\ SrgIdle /\ LateIdle

\* the scheduler: two workers over the requested targets
Init == SchedInit /\ ApplierIdle /\ StoreIdle /\ MoreIdle

Next == SchedNext

Spec == Init /\ [][Next]_vars

\* the applier over one file
ApplyInit == SchedIdle /\ ApplierInit /\ StoreIdle /\ MoreIdle

ApplyNext == apply

ApplySpec == ApplyInit /\ [][ApplyNext]_vars

\* reverse() applied to a store, repeatedly
ReverseInit == SchedIdle /\ ApplierIdle /\ StoreInit /\ MoreIdle

ReverseNext == Reverse

ReverseSpec == ReverseInit /\ [][ReverseNext]_vars

\* a store written by the encoder and read back by the decoder
BinaryInit == SchedIdle /\ ApplierIdle /\ StoreInit /\ MoreIdle

BinaryNext == Encode \/ decode

BinarySpec == BinaryInit /\ [][BinaryNext]_vars

\* a stream that no encoder wrote, read by the decoder
DecodeSpecInit ==
    SchedIdle /\ ApplierIdle /\ StreamInit /\ ChainIdle /\ TargetIdle
    /\ SrgIdle /\ LateIdle

DecodeNext == decode

DecodeSpec == DecodeSpecInit /\ [][DecodeNext]_vars

\* chain() applied to a store
ChainSpecInit ==
    SchedIdle /\ ApplierIdle /\ StoreIdle /\ ChainInit /\ TargetIdle /\ SrgIdle
    /\ LateIdle

ChainNext == Chain

ChainSpec == ChainSpecInit /\ [][ChainNext]_vars

\* lookups on the snapshot of a store
LookupSpecInit ==
    SchedIdle /\ ApplierIdle /\ StoreIdle /\ LookupInit /\ TargetIdle
    /\ SrgIdle /\ LateIdle

LookupNext == lookup

LookupSpec == LookupSpecInit /\ [][LookupNext]_vars

\* a target name parsed
TargetSpecInit ==
    SchedIdle /\ ApplierIdle /\ StoreIdle /\ ChainIdle /\ TargetInit
    /\ SrgIdle /\ LateIdle

TargetNext == FromStr

TargetSpec == TargetSpecInit /\ [][TargetNext]_vars

\* an SRG text parsed, then written back
SrgSpecInit ==
    SchedIdle /\ ApplierIdle /\ StoreIdle /\ ChainIdle /\ TargetIdle
    /\ SrgInit /\ LateIdle

SrgNext == ParseLine \/ Write

SrgSpec == SrgSpecInit /\ [][SrgNext]_vars

\* transform() applied to a store
TransformSpecInit ==
    SchedIdle /\ ApplierIdle /\ StoreIdle /\ ChainIdle /\ TargetIdle
    /\ SrgIdle /\ TransformInit /\ CacheIdle

TransformNext == transform

TransformSpec == TransformSpecInit /\ [][TransformNext]_vars

\* concurrent calls on one snapshot
CacheSpecInit ==
    SchedIdle /\ ApplierIdle /\ StoreIdle /\ ChainIdle /\ TargetIdle
    /\ SrgIdle /\ TransformIdle /\ CacheInit

CacheNext == cached_calls

CacheSpec == CacheSpecInit /\ [][CacheNext]_vars

(***************************************************************************)
(* Properties of the scheduler                                             *)
(***************************************************************************)
\* a worker that has left compute_target_work, by return or by panic
TerminalPcs ==
    {"returned_ok", "returned_err", "panic_already_done",
     "panic_remaining_work", "panic_redundant", "panic_not_a_dependency",
     "panic_already_waited", "panic_already_computed", "panic_was_done"}

\* nobody can take a step any more: every worker has left or is parked
Quiescent == \A w \in Workers : pc[w] \in TerminalPcs \cup {"parked"}

HardError == \E w \in Workers : outcome[w].kind = "MappingError"

\* the requested targets and everything they transitively require
RECURSIVE Closure(_)
Closure(S) ==
    LET more == S \cup UNION {Range(Requires(t)) : t \in S}
    IN  IF more = S THEN S ELSE Closure(more)

\* C1: each target of the transitive closure is installed in results at most
\* once, whatever the interleaving of the workers.
C1_AtMostOnce == \A t \in AllTargets : produced[t] <= 1

\* C2 (as a final-state property): in a run without hard error, once no
\* worker can step any more every worker has returned Ok, done is set and
\* the whole closure of the requested targets is in results.
C2_Progress ==
    (Quiescent /\ ~HardError) =>
        /\ \A w \in Workers : pc[w] = "returned_ok"
        /\ done
        /\ Closure(Range(initial_targets)) \subseteq results

\* C3 (as a final-state property): after a hard error no worker is left
\* parked on the condition variable when nobody is left to wake it.
C3_NobodyLeftParked ==
    (Quiescent /\ failed) => \A w \in Workers : pc[w] # "parked"

\* C4: at most one call returns Err, and only after failed and done are set;
\* once every failing worker has left, exactly one call has returned Err and
\* every other failing worker has returned Ok; failed and done never reset.
C4_State ==
    /\ Cardinality({w \in Workers : pc[w] = "returned_err"}) <= 1
    /\ \A w \in Workers : pc[w] = "returned_err" => failed /\ done
    /\ (HardError /\ \A w \in Workers :
            outcome[w].kind = "MappingError" => pc[w] \in TerminalPcs) =>
          /\ Cardinality({w \in Workers : pc[w] = "returned_err"}) = 1
          /\ \A w \in Workers : outcome[w].kind = "MappingError" =>
                pc[w] \in {"returned_err", "returned_ok"}

C4_Monotone == (failed => failed') /\ (done => done')

C4_OneErrorReturned == [](C4_State) /\ [][C4_Monotone]_vars

\* witness of C4: two workers failed, one returned Err, the other Ok
C4_Witness ==
    \E v, w \in Workers :
        /\ v # w
        /\ outcome[v].kind = "MappingError" /\ pc[v] = "returned_err"
        /\ outcome[w].kind = "MappingError" /\ pc[w] = "returned_ok"

\* C5: in an error-free run a worker that starts after done was set does not
\* fail: it never dies on the "Already done!" assertion.
C5_LateWorkerReturnsOk ==
    ~HardError => \A w \in Workers : pc[w] # "panic_already_done"

\* C6: every push on the ready queue is the first enqueue of that target
\* (a requested target or a fresh dependency) or happens when everything the
\* target requires is already in results.
C6_Push(t) ==
    remaining_targets' = Append(remaining_targets, t) =>
        \/ t \notin ever_queued
        \/ Range(Requires(t)) \subseteq results'

C6_CausalOrder == [][\A t \in AllTargets : C6_Push(t)]_vars

\* witness of C6: a target that waited for two dependencies is back on the
\* queue
C6_Witness ==
    \E i \in DOMAIN remaining_targets :
        LET t == remaining_targets[i] IN
        /\ t \in DOMAIN waiting_targets
        /\ waiting_targets[t] = {}
        /\ Len(Requires(t)) = 2
        /\ Range(Requires(t)) \subseteq results

\* C13 (as a final-state property): a requested target obf2Y-onlyobf
\* completes: in a run without hard error, once no worker can step any
\* more, it is in results (where it would hold the result of obf2Y).
C13_OnlyobfOfObfCompletes ==
    (Quiescent /\ ~HardError) =>
        \A t \in Range(initial_targets) :
            (t.modifier = "onlyobf" /\ t.original = "obf") => t \in results

\* the targets try_compute_target requires for t that results does not hold
MissingRequired(t, res) == {d \in Range(Requires(t)) : d \notin res}

\* the call of try_compute_target by worker w, made while a required target
\* is missing
C22_Call(w) ==
    (/\ pc[w] = "compute"
     /\ pc'[w] # "compute"
     /\ MissingRequired(target[w], results) # {}) =>
        /\ outcome'[w].kind = "WaitingFor"
        /\ Range(outcome'[w].deps) = MissingRequired(target[w], results)
        /\ UNCHANGED <<results, waiters, waiting_targets, remaining_targets>>

\* C22: when a target it requires is absent from results, try_compute_target
\* returns WaitingFor with exactly the missing required targets and leaves
\* results, waiters, waiting_targets and the ready queue as they were.
C22_NoEffectWhenMissing == [][\A w \in Workers : C22_Call(w)]_vars

\* witness of C22: a target with two different requirements got WaitingFor
\* with the one of them that was missing
C22_Witness ==
    \E w \in Workers :
        /\ pc[w] = "wait_lock"
        /\ outcome[w].kind = "WaitingFor"
        /\ Len(Requires(target[w])) = 2
        /\ Requires(target[w])[1] # Requires(target[w])[2]
        /\ Len(outcome[w].deps) = 1

\* C25: the WaitingFor list that try_compute_target returns holds no target
\* twice, and the registration of the dependencies never reaches the panic
\* "already waited for".
C25_NoDependencyTwice ==
    \A w \in Workers :
        /\ outcome[w].kind = "WaitingFor" =>
              \A i, j \in DOMAIN outcome[w].deps :
                  outcome[w].deps[i] = outcome[w].deps[j] => i = j
        /\ pc[w] # "panic_already_waited"

\* C24: in every run, failing ones included, a worker that holds the
\* worker-count mutex and has read done == true finds the ready queue empty:
\* the assertion "Marked as done with remaining work!" never fails.
C24_DoneMeansNoWork ==
    \A w \in Workers :
        /\ pc[w] = "idle_assert" => remaining_targets = <<>>
        /\ pc[w] # "panic_remaining_work"

\* C26: in an error-free run, in every state with done set and failed not
\* set, the ready queue is empty, no target of waiting_targets has a
\* dependency outstanding, and results holds every requested target and
\* every target that was ever put on the queue.
C26_DoneMeansComplete ==
    (~HardError /\ done /\ ~failed) =>
        /\ remaining_targets = <<>>
        /\ \A t \in DOMAIN waiting_targets : waiting_targets[t] = {}
        /\ Range(initial_targets) \subseteq results
        /\ ever_queued \subseteq results

\* witness of C26: done is set after a target that waited for two
\* dependencies was computed
C26_Witness ==
    /\ ~HardError /\ done /\ ~failed
    /\ \E t \in DOMAIN waiting_targets :
          /\ Len(Requires(t)) = 2
          /\ t \in results

\* worker w holds a guard of the results lock
HoldsResults(w, lock) == \E i \in DOMAIN lock : lock[i].holder = w

C29_WaitersHeld ==
    \A w \in Workers : HoldsResults(w, results_lock) => waiters_lock = w

C29_Acquire(w) ==
    (waiters_lock' = w /\ waiters_lock # w) => ~HoldsResults(w, results_lock)

\* C29: a worker that holds the waiters lock and the results lock took the
\* waiters lock first: no step takes the waiters lock while the worker holds
\* a guard of results, and every guard of results that is held from one step
\* to the next is held under the waiters lock.
C29_LockOrder ==
    [](C29_WaitersHeld) /\ [][\A w \in Workers : C29_Acquire(w)]_vars

\* witness of C29: a worker holds the waiters lock and the write guard of
\* results
C29_Witness ==
    \E w \in Workers :
        /\ pc[w] = "ok_insert"
        /\ waiters_lock = w
        /\ results_lock = <<[holder |-> w, mode |-> "write"]>>

\* the targets of the command line: two different formats, with or without
\* a modifier
DistinctTargets == {t \in AllTargets : t.original # t.renamed}

\* the targets reached from t by following dependencies, t left out
Below(t) == Closure(Range(Requires(t)))

\* the targets at which following dependencies from t ends
EndsOf(t) == {d \in Closure({t}) : Requires(d) = <<>>}

\* C27: the dependency relation of try_compute_target is acyclic: following
\* dependencies from a target of the command line that was put on the queue
\* never comes back to a target already visited, and it ends at obf2srg and
\* obf2spigot only.
C27_DependenciesAcyclic ==
    \A t \in DistinctTargets \cap ever_queued :
        /\ \A d \in Closure({t}) : d \notin Below(d)
        /\ EndsOf(t) \subseteq {OBF2SRG, OBF2SPIGOT}

(***************************************************************************)
(* Properties of the range applier                                         *)
(***************************************************************************)
AllReferences ==
    Tagged("Field", ap_field_references)
    \o Tagged("Method", ap_method_references)

\* every span lies in the file and holds the name of the referenced member
SpansContainNames ==
    \A i \in DOMAIN AllReferences :
        LET r == AllReferences[i] IN
        /\ r.location.end <= Len(ap_input)
        /\ SubSeq(ap_input, r.location.start + 1, r.location.end) = r.name

TableOf(reference) ==
    IF reference.kind = "Field" THEN ap_mappings.fields
    ELSE ap_mappings.methods

\* the name the tables give the referenced member, its own name when absent
MappedName(reference) ==
    IF reference.name \in DOMAIN TableOf(reference)
    THEN TableOf(reference)[reference.name]
    ELSE reference.name

\* the references whose mapping is present and differs from the name
ActuallyChanged ==
    {i \in DOMAIN AllReferences :
        MappedName(AllReferences[i]) # AllReferences[i].name}

\* C7: apply returns the number of references, fields and methods alike,
\* whose mapping is present and differs from the original name.
C7_CountsChangedReferences ==
    ap_status = "ok" => ap_num_changes = Cardinality(ActuallyChanged)

\* the file from byte `from` on, every span replaced by its mapped name
RECURSIVE Replaced(_)
Replaced(from) ==
    IF from > Len(ap_input) THEN <<>>
    ELSE IF \E i \in DOMAIN AllReferences :
                AllReferences[i].location.start + 1 = from
         THEN LET r == AllReferences[
                        CHOOSE i \in DOMAIN AllReferences :
                            AllReferences[i].location.start + 1 = from]
              IN  MappedName(r) \o Replaced(r.location.end + 1)
         ELSE <<ap_input[from]>> \o Replaced(from + 1)

\* C8: when the spans do not overlap and contain the member names, apply
\* succeeds and its output is the source with every span replaced by the
\* mapped name (the original name without a mapping), all else verbatim.
C8_OutputIsSourceWithSpansReplaced ==
    (ap_status \notin {"ready", "running"} /\ SpansContainNames) =>
        /\ ap_status = "ok"
        /\ ap_output = Replaced(1)

\* witness of C8: a method reference in front of a field reference with a
\* gap between them, one of them renamed to a name of another length
C8_Witness ==
    /\ ap_status = "ok"
    /\ SpansContainNames
    /\ Len(ap_field_references) = 1
    /\ Len(ap_method_references) = 1
    /\ ap_method_references[1].location.end
           < ap_field_references[1].location.start
    /\ Len(MappedName(MemberReference("Field", ap_field_references[1])))
           # size(ap_field_references[1].location)
    /\ ap_output = Replaced(1)

(***************************************************************************)
(* Properties of the mapping store                                         *)
(***************************************************************************)
Entries(map) == {map[i] : i \in DOMAIN map}

IsIdentityClass(entry) == entry[1] = entry[2]

IsIdentityMember(entry) == entry[1].name = entry[2]

NotIdentityClass(entry) == ~IsIdentityClass(entry)

NotIdentityMember(entry) == ~IsIdentityMember(entry)

\* the store without the identity entries of its field and method tables
WithoutIdentityMembers(store) ==
    MappingsBuilder(store.classes,
                    SelectSeq(store.field_names, NotIdentityMember),
                    SelectSeq(store.method_names, NotIdentityMember))

OfClass(members, class) ==
    LET In(entry) == entry[1].class = class IN SelectSeq(members, In)

\* same entries, and the same order among the members of each class
SameByClass(decoded, original) ==
    LET renaming == SelectSeq(original, NotIdentityMember) IN
    /\ Entries(decoded) = Entries(renaming)
    /\ Len(decoded) = Len(renaming)
    /\ \A c \in ClassPool : OfClass(decoded, c) = OfClass(renaming, c)

C10_ReverseTwiceIsIdentity ==
    st_reversed = 2 => st_builder = st_original

Injective(map) ==
    \A i, j \in DOMAIN map : i # j => map[i][2] # map[j][2]

\* the classes that declare a member or occur in a method descriptor
MemberClasses(store) ==
    {k.class : k \in keys(store.field_names)}
    \cup {k.class : k \in keys(store.method_names)}
    \cup UNION {SignatureClasses(parse(k.signature)) :
                   k \in keys(store.method_names)}

\* a store reverse() loses nothing of
Reversible(store) ==
    /\ Injective(store.classes)
    /\ Injective(fields(store))
    /\ Injective(methods(store))
    /\ \A c \in MemberClasses(store) :
          c \in values(store.classes) => c \in keys(store.classes)

\* C10 amended: two reversals give the store back (keys, values and order
\* of the three tables) when no two classes and no two members are renamed
\* to the same thing and every class of a member or descriptor that is the
\* new name of a class is itself renamed by the class table.
C10_ReverseTwice ==
    (st_reversed = 2 /\ Reversible(st_original)) =>
        st_builder = st_original

\* witness of C10: a store that renames a class, a field of that class and
\* a method whose descriptor names that class
C10_Witness ==
    /\ st_reversed = 2
    /\ Reversible(st_original)
    /\ \E i \in DOMAIN st_original.classes :
          LET c == st_original.classes[i] IN
          /\ c[1] # c[2]
          /\ \E f \in Entries(st_original.field_names) :
                f[1].class = c[1] /\ f[1].name # f[2]
          /\ \E m \in Entries(st_original.method_names) :
                /\ c[1] \in SignatureClasses(parse(m[1].signature))
                /\ m[1].name # m[2]
    /\ st_builder = st_original

(***************************************************************************)
(* Properties of chain                                                     *)
(***************************************************************************)
\* a descriptor with every class reference L<name>; substituted through the
\* class table, character by character
RECURSIVE remap_descriptor(_, _)
remap_descriptor(descriptor, classes) ==
    IF descriptor = <<>> THEN <<>>
    ELSE IF Head(descriptor) = "L" /\ find(descriptor, ";") # 0
    THEN LET end == find(descriptor, ";")
             name == SubSeq(descriptor, 2, end - 1)
             renamed == IF contains_key(classes, name)
                        THEN get(classes, name) ELSE name
         IN  <<"L">> \o renamed \o <<";">>
             \o remap_descriptor(SubSeq(descriptor, end + 1, Len(descriptor)),
                                 classes)
    ELSE <<Head(descriptor)>> \o remap_descriptor(Tail(descriptor), classes)

\* self maps a -> b, the chained mappings map b -> c: the chained store
\* maps a -> c, for classes, fields and methods
Composes(self, other, result) ==
    /\ \A e \in Entries(self.classes) :
          contains_key(other.classes, e[2]) =>
              get_class(result, e[1]) = get(other.classes, e[2])
    /\ \A e \in Entries(self.fields) :
          contains_key(other.fields, e[2]) =>
              get_field(result, e[1]) = get(other.fields, e[2])
    /\ \A e \in Entries(self.methods) :
          contains_key(other.methods, e[2]) =>
              get_method(result, e[1]) =
                  MethodData(get(other.methods, e[2]).class,
                             get(other.methods, e[2]).name,
                             remap_descriptor(e[1].signature,
                                              result.classes))

NoClash(self, other) ==
    \A k \in keys(other.classes) :
        k \in keys(self.classes) => k \in values(self.classes)

C19_ChainIdentity ==
    ch_status = "chained" =>
        /\ ch_other = NewBuilder => ch_builder = ch_self
        /\ ch_self = NewBuilder =>
              /\ ch_builder = ch_other
              /\ \A e \in Entries(snapshot(ch_builder).methods) :
                    e[2].signature =
                        remap_descriptor(e[1].signature, ch_other.classes)

\* witness of C19: the empty store chained with a store that renames a
\* class named by the descriptor of one of its methods
C19_Witness ==
    /\ ch_status = "chained"
    /\ ch_self = NewBuilder
    /\ ch_builder = ch_other
    /\ \E c \in Entries(ch_other.classes), m \in Entries(ch_other.method_names) :
          /\ c[1] # c[2]
          /\ c[1] \in SignatureClasses(parse(m[1].signature))

(***************************************************************************)
(* Properties of the SRG parser and encoder                                *)
(***************************************************************************)
\* C12: for every method key m of a store S, S.snapshot().get_method(m) has
\* the descriptor of m with every class reference substituted through
\* S.classes (classes absent from the table unchanged), whatever target
\* descriptor the MD line that inserted m carried.
C12_DescriptorFromClassTable ==
    \A m \in keys(sg_builder.method_names) :
        /\ ~get_method_panics(snapshot(sg_builder), m)
        /\ get_method(snapshot(sg_builder), m).signature =
               remap_descriptor(m.signature, sg_builder.classes)

\* witness of C12: a text with "CL: a b" and an MD line whose target
\* descriptor still names a; the line written back names b
C12_Witness ==
    /\ sg_status = "written"
    /\ \E i, j \in DOMAIN sg_lines :
          /\ sg_lines[i] = class_line(<<"a">>, <<"b">>)
          /\ sg_lines[j] =
                method_line(MethodData(<<"a">>, <<"m">>, SrgSignature),
                            MethodData(<<"a">>, <<"n">>, SrgSignature))
    /\ \E k \in DOMAIN sg_output :
          sg_output[k] =
              method_line(MethodData(<<"a">>, <<"m">>, SrgSignature),
                          MethodData(<<"b">>, <<"n">>, SrgRemappedSignature))

(***************************************************************************)
(* Properties of MappingsTarget::from_str                                  *)
(***************************************************************************)
\* the strings of the form ORIGINAL "2" RENAMED ("-" MODIFIER)? with two
\* different formats, and the target each of them denotes
ExactTargets ==
    {[string |-> FormatWords[o] \o <<"2">> \o FormatWords[r] \o suffix[1],
      target |-> WithModifier(MappingsTarget(o, r), suffix[2])] :
        o \in DOMAIN FormatWords,
        r \in DOMAIN FormatWords,
        suffix \in {<<<<>>, NoModifier>>}
                   \cup {<<<<"-">> \o ModifierWords[m], m>> :
                            m \in DOMAIN ModifierWords}}

ExactForm(value) ==
    \E e \in ExactTargets :
        e.string = value /\ e.target.original # e.target.renamed

\* C14: from_str accepts a string if and only if it has exactly the form
\* ORIGINAL "2" RENAMED ("-" MODIFIER)? with two different formats of
\* {obf, srg, mcp, spigot} and a modifier of {classes, members, onlyobf};
\* every other string is rejected with InvalidTarget.
C14_AcceptsExactlyTheTargetForm ==
    ts_result.done => (ts_result.ok <=> ExactForm(ts_value))

(***************************************************************************)
(* Properties of the binary decoder on streams that no encoder wrote       *)
(***************************************************************************)
\* the errors CompressedMappingsDecoder::decode returns
DecodeErrors ==
    {"io", "InvalidName", "InvalidSignature", "UnchangedMethod",
     "UnchangedField", "UnexpectedTrailing"}

\* the decoder has read the first class of a stream that has one
FirstClassRead ==
    /\ st_status \notin {"encoded", "decoding"} \/ st_position > 1
    /\ Len(st_stream) > 0
    /\ st_stream[1] >= 1

\* the four strings of a method entry that start at index i of the stream
NameUnchanged(i) ==
    st_stream[i + 1] = <<>> \/ st_stream[i + 1] = st_stream[i]

DescriptorUnchanged(i) ==
    st_stream[i + 3] = <<>> \/ st_stream[i + 3] = st_stream[i + 2]

\* C15: when decode returns an error, the builder it was filling holds
\* exactly the entries it held before the call.
C15_NoPartialInserts ==
    st_status \in DecodeErrors => st_builder = st_original

\* C16: UnchangedField is returned exactly for a field entry whose renamed
\* name is its original name, UnchangedMethod exactly for a method entry
\* whose name is unchanged (empty or equal) and whose descriptor is unchanged
\* (empty or equal); a method entry with unchanged name and another
\* descriptor is read without error and inserts nothing.
C16_RejectsIdentityMembers ==
    /\ st_status = "UnchangedField" =>
          st_stream[st_position - 1] = st_stream[st_position]
    /\ st_status = "UnchangedMethod" =>
          /\ NameUnchanged(st_position - 3)
          /\ DescriptorUnchanged(st_position - 3)
    \* the first method entry of the first class, at indices 5..8
    /\ (FirstClassRead /\ st_stream[4] >= 1) =>
          IF NameUnchanged(5) /\ DescriptorUnchanged(5)
          THEN st_status = "UnchangedMethod" /\ st_position = 8
          ELSE ~(st_status = "UnchangedMethod" /\ st_position = 8)
    \* the first field entry of a first class without methods, at 6..7
    /\ (FirstClassRead /\ st_stream[4] = 0 /\ st_stream[5] >= 1
          /\ st_stream[6] = st_stream[7]) =>
          st_status = "UnchangedField" /\ st_position = 7
    \* a stream of one class with one method and no field
    /\ (st_status \notin {"encoded", "decoding"} /\ FirstClassRead
          /\ st_stream[1] = 1 /\ st_stream[4] = 1 /\ st_stream[9] = 0
          /\ NameUnchanged(5) /\ ~DescriptorUnchanged(5)) =>
          st_status = "ok" /\ st_builder.method_names = <<>>

\* witness of C16: a first class whose method keeps its name and changes
\* its descriptor is read, then a field of the second class that is renamed
\* to its own name ends the decode with UnchangedField
C16_Witness ==
    /\ st_status = "UnchangedField"
    /\ st_stream[st_position] = <<"f">>
    /\ st_stream[1] = 2 /\ st_stream[4] = 1
    /\ NameUnchanged(5) /\ ~DescriptorUnchanged(5)
    /\ st_position > 9
    /\ st_builder.method_names = <<>>

\* the other two cases: UnchangedMethod for a method entry with an empty
\* renamed name and its own descriptor, and a whole stream accepted
C16_UnchangedMethodWitness ==
    /\ st_status = "UnchangedMethod"
    /\ st_stream[st_position - 2] = <<>>
    /\ st_stream[st_position] = StreamSignature

C16_AcceptedWitness ==
    /\ st_status = "ok"
    /\ st_stream[1] = 1 /\ st_stream[4] = 1 /\ st_stream[9] = 0
    /\ st_stream[6] = <<"m">>
    /\ st_stream[8] = StreamOtherSignature
    /\ st_builder.method_names = <<>>

\* C21: after a decode into an empty builder that returned Ok, no class
\* entry maps a class to itself and no field or method entry has its
\* original name as its new name.
C21_OnlyActualRenames ==
    (st_status = "ok" /\ st_original = NewBuilder) =>
        /\ \A e \in Entries(st_builder.classes) : e[1] # e[2]
        /\ \A e \in Entries(st_builder.field_names) : e[1].name # e[2]
        /\ \A e \in Entries(st_builder.method_names) : e[1].name # e[2]

\* witness of C21: a stream whose first class keeps its name ("" as the
\* renamed name) and renames a field is decoded; the store holds the field
\* and no entry of that class
C21_Witness ==
    /\ st_status = "ok"
    /\ st_original = NewBuilder
    /\ st_stream[1] >= 1
    /\ st_stream[3] = <<>>
    /\ ~contains_key(st_builder.classes, st_stream[2])
    /\ \E e \in Entries(st_builder.field_names) : e[1].class = st_stream[2]

(***************************************************************************)
(* Properties of the lookups of a snapshot                                 *)
(***************************************************************************)
\* what the class table makes of a class: its entry, else the class
RenamedClass(classes, class) ==
    IF \E e \in Entries(classes) : e[1] = class
    THEN (CHOOSE e \in Entries(classes) : e[1] = class)[2]
    ELSE class

\* the table of the store that the query is looked up in
QueriedTable ==
    CASE ch_query.kind = "class" -> ch_builder.classes
      [] ch_query.kind = "field" -> ch_builder.field_names
      [] ch_query.kind = "method" -> ch_builder.method_names

Missed == \A e \in Entries(QueriedTable) : e[1] # ch_query.key

\* the key itself, its class and the classes of its descriptor remapped
RemappedKey ==
    CASE ch_query.kind = "class" -> ch_query.key
      [] ch_query.kind = "field" ->
            FieldData(RenamedClass(ch_builder.classes, ch_query.key.class),
                      ch_query.key.name)
      [] ch_query.kind = "method" ->
            MethodData(RenamedClass(ch_builder.classes, ch_query.key.class),
                       ch_query.key.name,
                       remap_descriptor(ch_query.key.signature,
                                        ch_builder.classes))

Returned ==
    /\ ~ch_answer.panicked
    /\ ch_answer.value # <<>>
    /\ Missed => ch_answer.value[1] = RemappedKey

\* the descriptor of the method key looked up is one that parses
DescriptorParses ==
    ch_query.kind = "method" => parse(ch_query.key.signature).ok

\* C17 as stated: get_class, get_field and get_method return a value for
\* every key, and on a miss the key with its class and the classes of its
\* descriptor remapped through the class table.
C17_LookupsNeverFail ==
    ch_query # NoQuery => Returned

\* C17 amended: the same, for every class, every field key and every method
\* key whose descriptor parses.
C17_LookupsOfParsedKeysNeverFail ==
    (ch_query # NoQuery /\ DescriptorParses) => Returned

\* witness of C17: a method that the store does not hold, of a class the
\* class table does not rename, whose descriptor names a renamed class
C17_Witness ==
    /\ ch_query.kind = "method"
    /\ Missed
    /\ ~contains_key(ch_builder.classes, ch_query.key.class)
    /\ ~ch_answer.panicked
    /\ ch_answer.value[1].class = ch_query.key.class
    /\ ch_answer.value[1].signature # ch_query.key.signature

\* the class of the key looked up is a key of the class table
ClassExplicit ==
    /\ ch_query.kind \in {"field", "method"}
    /\ \E e \in Entries(ch_builder.classes) : e[1] = ch_query.key.class

\* C20 as stated: for a class c of the class table, get_field of a field
\* (c, n) absent from the field table is (classes[c], n), and get_method of
\* a method (c, n, d) absent from the method table is (classes[c], n, d
\* with its classes remapped) while try_get_method is None.
C20_ImplicitClassRemap ==
    (ch_query # NoQuery /\ ClassExplicit /\ Missed) =>
        /\ ~ch_answer.panicked
        /\ ~ch_answer.found
        /\ ch_answer.value = <<RemappedKey>>

\* C20 amended: the same, for the fields and for the methods whose
\* descriptor parses.
C20_ImplicitClassRemapOfParsedKeys ==
    (ch_query # NoQuery /\ ClassExplicit /\ Missed /\ DescriptorParses) =>
        /\ ~ch_answer.panicked
        /\ ~ch_answer.found
        /\ ch_answer.value = <<RemappedKey>>

\* witness of C20: a field absent from the field table, of a class that the
\* class table renames
C20_Witness ==
    /\ ch_query.kind = "field"
    /\ ClassExplicit
    /\ Missed
    /\ ~ch_answer.found
    /\ ch_answer.value[1].class # ch_query.key.class
    /\ ch_answer.value[1].name = ch_query.key.name

\* the same for a method, whose descriptor names the renamed class
C20_MethodWitness ==
    /\ ch_query.kind = "method"
    /\ ClassExplicit
    /\ Missed
    /\ ~ch_answer.panicked
    /\ ~ch_answer.found
    /\ ch_answer.value[1].class # ch_query.key.class
    /\ ch_answer.value[1].signature # ch_query.key.signature

(***************************************************************************)
(* Properties of the SRG round trip                                        *)
(***************************************************************************)
\* the CL, FD and MD lines in the form the encoder writes them, each with
\* the entry it states
ClassLines ==
    {[kind |-> "class", line |-> class_line(o, r), original |-> o,
      renamed |-> r] : o \in ClassPool, r \in ClassPool}

FieldLines ==
    {[kind |-> "field", line |-> field_line(o, r), original |-> o,
      renamed |-> r] : o \in FieldKeys, r \in FieldKeys}

MethodLines ==
    {[kind |-> "method", line |-> method_line(o, r), original |-> o,
      renamed |-> r] :
        o \in {MethodData(c, <<"m">>, SrgSignature) : c \in ClassPool},
        r \in {MethodData(c, n, d) :
                  c \in ClassPool, n \in RenamedMethodNamePool,
                  d \in {SrgSignature, SrgRemappedSignature}}}

IsLineOf(line, entries) == \E e \in entries : e.line = line

IsEntryLine(line) ==
    \/ IsLineOf(line, ClassLines)
    \/ IsLineOf(line, FieldLines)
    \/ IsLineOf(line, MethodLines)

EntryOf(line) ==
    IF IsLineOf(line, ClassLines)
    THEN CHOOSE e \in ClassLines : e.line = line
    ELSE IF IsLineOf(line, FieldLines)
    THEN CHOOSE e \in FieldLines : e.line = line
    ELSE CHOOSE e \in MethodLines : e.line = line

\* the kind of a line by its first three characters
KindOf(line) ==
    LET mapping_type == IF Len(line) >= 3 THEN SubSeq(line, 1, 3) ELSE <<>>
    IN  CASE mapping_type = <<"C", "L", ":">> -> "class"
          [] mapping_type = <<"F", "D", ":">> -> "field"
          [] mapping_type = <<"M", "D", ":">> -> "method"
          [] OTHER -> "none"

\* the lines of one kind, in the order of the text
LinesOfKind(text, kind) ==
    LET OfKind(line) == KindOf(line) = kind IN SelectSeq(text, OfKind)

\* the text with its class lines first, then its field lines, then its
\* method lines
ClassesFieldsMethods(text) ==
    LinesOfKind(text, "class") \o LinesOfKind(text, "field")
    \o LinesOfKind(text, "method")

\* a set of CL, FD and MD lines: no line twice
SetOfEntryLines(text) ==
    /\ \A i \in DOMAIN text : KindOf(text[i]) # "none"
    /\ \A i, j \in DOMAIN text : text[i] = text[j] => i = j

\* every line is in the form the encoder writes
InEncoderForm(text) == \A i \in DOMAIN text : IsEntryLine(text[i])

\* no class, field or method is the original of two lines
DistinctOriginals(text) ==
    \A i, j \in DOMAIN text :
        (/\ EntryOf(text[i]).kind = EntryOf(text[j]).kind
         /\ EntryOf(text[i]).original = EntryOf(text[j]).original) => i = j

\* the class table that the CL lines of the text state
ClassTable(text) ==
    LET lines == LinesOfKind(text, "class") IN
    [i \in DOMAIN lines |->
        <<EntryOf(lines[i]).original, EntryOf(lines[i]).renamed>>]

\* the renamed side of every FD and MD line names the class, and the
\* descriptor, that the CL lines of the text give its original side
AgreesWithClassLines(text) ==
    \A i \in DOMAIN text :
        LET e == EntryOf(text[i]) IN
        /\ e.kind \in {"field", "method"} =>
              e.renamed.class = RenamedClass(ClassTable(text),
                                             e.original.class)
        /\ e.kind = "method" =>
              e.renamed.signature =
                  remap_descriptor(e.original.signature, ClassTable(text))

\* C18 as stated: a set of CL, FD and MD lines that is parsed, snapshotted
\* and written by the SRG encoder comes out as the same lines, the classes
\* first, then the fields, then the methods.
C18_SrgRoundTrip ==
    (sg_status = "written" /\ SetOfEntryLines(sg_lines)) =>
        sg_output = ClassesFieldsMethods(sg_lines)

\* C18 amended: the same, when the lines are in the form the encoder
\* writes, no two lines have the same original and the renamed side of
\* every FD and MD line agrees with the CL lines.
C18_SrgRoundTripOfConsistentLines ==
    (/\ sg_status = "written"
     /\ SetOfEntryLines(sg_lines)
     /\ InEncoderForm(sg_lines)
     /\ DistinctOriginals(sg_lines)
     /\ AgreesWithClassLines(sg_lines)) =>
        sg_output = ClassesFieldsMethods(sg_lines)

\* witness of C18: a method line, a field line and the line of their class,
\* in that order, are written back in the order class, field, method
C18_Witness ==
    /\ sg_status = "written"
    /\ sg_lines =
          <<method_line(MethodData(<<"a">>, <<"m">>, SrgSignature),
                        MethodData(<<"b">>, <<"n">>, SrgRemappedSignature)),
            field_line(FieldData(<<"a">>, <<"f">>),
                       FieldData(<<"b">>, <<"g">>)),
            class_line(<<"a">>, <<"b">>)>>
    /\ sg_output = <<sg_lines[3], sg_lines[2], sg_lines[1]>>

(***************************************************************************)
(* Properties of the descriptors held by a store                           *)
(***************************************************************************)
\* the names of the classes a parsed method descriptor refers to
ClassNames(signature) ==
    LET types == Range(signature.parameter_types) \cup {signature.return_type}
    IN  {type.name : type \in {c \in types : c.kind = "Class"}}

\* C28: every method key the SRG parser inserted has a descriptor that
\* parses and refers to no class of empty name: a descriptor such as (L;)V
\* is rejected.
C28_NoEmptyClassReference ==
    \A e \in Entries(sg_builder.method_names) :
        /\ parse(e[1].signature).ok
        /\ <<>> \notin ClassNames(parse(e[1].signature))

(***************************************************************************)
(* Properties of transform                                                 *)
(***************************************************************************)
\* what hook call number i has to be, given the store transform() started
\* from: the fields in order, then the methods, then the classes, every
\* member with its class (and descriptor) renamed by the classes as they
\* were
ExpectedCall(i) ==
    LET num_fields == Len(tf_original.field_names)
        num_methods == Len(tf_original.method_names)
    IN  IF i <= num_fields
        THEN LET entry == tf_original.field_names[i] IN
             HookCall("transform_field",
                      get_class(tf_original, entry[1].class), entry[2], <<>>)
        ELSE IF i <= num_fields + num_methods
        THEN LET entry == tf_original.method_names[i - num_fields] IN
             HookCall("transform_method",
                      get_class(tf_original, entry[1].class), entry[2],
                      compute_signature(tf_original, entry[1].signature))
        ELSE HookCall("transform_class",
                      tf_original.classes[i - num_fields - num_methods][2],
                      <<>>, <<>>)

\* C23: transform calls the hooks in the order fields, methods, classes:
\* no class entry is rewritten before every field and every method had its
\* hook called, and each member hook is given the member's class, and each
\* method hook the descriptor, as renamed by the class table before the
\* transformer changed it.
C23_HooksInOrder ==
    /\ \A i \in DOMAIN tf_calls : tf_calls[i] = ExpectedCall(i)
    /\ tf_builder.classes # tf_original.classes =>
          Len(tf_calls) > Len(tf_original.field_names)
                          + Len(tf_original.method_names)

\* witness of C23: a store with a field and a method of a renamed class was
\* transformed to the end, and the transformer renamed that class
C23_Witness ==
    /\ tf_stage = "done"
    /\ \E f \in keys(tf_original.field_names),
          m \in keys(tf_original.method_names) :
          /\ f.class = m.class
          /\ get_class(tf_original, f.class) # f.class
          /\ get_class(tf_builder, f.class) # get_class(tf_original, f.class)

(***************************************************************************)
(* Properties of the descriptor cache                                      *)
(***************************************************************************)
\* Mappings::remap_signature, the default that never caches (lines 399-417)
UncachedRemap(original) == compute_signature(sc_mappings, original)

C30_SameAnswers ==
    /\ \A r \in sc_returned : r[2] = UncachedRemap(r[1])
    /\ \A r, q \in sc_returned : r[1] = q[1] => r[2] = q[2]

C30_EntriesKept ==
    \A original \in DOMAIN sc_mappings.signature_cache :
        /\ original \in DOMAIN sc_mappings'.signature_cache
        /\ sc_mappings'.signature_cache[original]
               = sc_mappings.signature_cache[original]

\* C30: however the get_method and remap_signature calls of the threads on
\* one snapshot interleave, every call for a descriptor returns the same
\* remapped descriptor, the one the uncached remap through the class table
\* gives, and an entry of the cache is never changed nor removed.
C30_CacheStable == [](C30_SameAnswers) /\ [][C30_EntriesKept]_vars

\* witness of C30: two threads asked for the same descriptor, which the
\* class table renames; both missed it in the cache, one has inserted and
\* returned it, the other is about to take the write lock
C30_Witness ==
    \E t, u \in Threads :
        /\ t # u
        /\ sc_call[t].original.signature = sc_call[u].original.signature
        /\ sc_pc[t] = "idle" /\ sc_count[t] = 1
        /\ sc_pc[u] = "write"
        /\ sc_call[u].original.signature
               \in DOMAIN sc_mappings.signature_cache
        /\ sc_result[t] # <<sc_call[t].original.signature>>

=========================================================================
